---- MODULE Spec2Model ----
(***************************************************************************)
(* Handoff orchestrator of the multi-agent travel planner                  *)
(* (Coach/Solutions/Challenge-08/python/multi_agent_travel_planner.py).    *)
(*                                                                         *)
(* Text is modelled as a sequence of one-character strings, so that the    *)
(* string operations of the source (strip, upper, lower, splitlines,       *)
(* startswith, split, join, slicing, title) are computed character by      *)
(* character.                                                              *)
(***************************************************************************)
EXTENDS Integers, Sequences, FiniteSets, TLC

VARIABLES
    pc,                  \* position of main() / run_handoff_workflow()
    agents,              \* self.agents: the set of registered role keys
    agent_labels,        \* self.agent_labels: role key -> display label
    agent_threads,       \* self.agent_threads: role key -> its thread (the
                         \* threads are numbered in the order get_new_thread
                         \* returned them)
    exit_stack,          \* self.exit_stack: the agent contexts entered, in order
    released,            \* role key -> number of times its context was exited
    policy_configured,   \* self.project_client and self.policy_agent_id are set
    current_agent_key,   \* self.current_agent_key
    pending_auto_agent,  \* self.pending_auto_agent
    pending_auto_prompt, \* self.pending_auto_prompt
    last_user_message,   \* self.last_user_message
    conversation,        \* self.conversation
    trip_notes,          \* self.trip_notes
    user_input,          \* local user_input of the current iteration
    agent_label,         \* local agent_label of the current iteration
    auto_mode,           \* local auto_mode of the current iteration
    response_text,       \* local response_text, accumulated while streaming
    stream_rest,         \* what the agent's stream has still to deliver
    output,              \* the last message printed by the loop
    exit_cause,          \* how run_handoff_workflow() was left
    n_inputs,            \* number of input() calls made so far
    n_dispatches,        \* number of run_stream() calls made so far
    last,                \* record of the last dispatch (observation only)
    variant,             \* the class whose methods are called: "coach" or "student"
    calls,               \* the arguments of the method calls made directly, in order;
                         \* in the loop: the service calls of the current iteration
    result,              \* what the last method called directly returned
    api_key              \* the secure weather server's API_KEY

vars == <<pc, agents, agent_labels, agent_threads, exit_stack, released, policy_configured,
          current_agent_key, pending_auto_agent, pending_auto_prompt,
          last_user_message, conversation, trip_notes, user_input, agent_label,
          auto_mode, response_text, stream_rest, output, exit_cause, n_inputs,
          n_dispatches, last, variant, calls, result, api_key>>

-----------------------------------------------------------------------------
(* Bounds of the model *)

\* at most this many input() calls in one session
MaxInputs == 2
\* at most this many run_stream() calls in one session
MaxDispatches == 2
\* a streamed response is cut after this many characters, or delivered whole
ChunkLen == 4

-----------------------------------------------------------------------------
(* Characters and the string methods the source uses *)

\* Python's None, as a value that is no text (a text holds single characters)
None == <<"None">>

\* a printed or returned message whose characters are not examined
Msg(tag) == <<tag>>

NL == "\n"
Whitespace == {" ", NL, "\t"}

LowerLetters == <<"a","b","c","d","e","f","g","h","i","j","k","l","m",
                  "n","o","p","q","r","s","t","u","v","w","x","y","z">>
UpperLetters == <<"A","B","C","D","E","F","G","H","I","J","K","L","M",
                  "N","O","P","Q","R","S","T","U","V","W","X","Y","Z">>

IsLower(c) == \E i \in 1..26 : LowerLetters[i] = c
IsUpper(c) == \E i \in 1..26 : UpperLetters[i] = c
IsLetter(c) == IsLower(c) \/ IsUpper(c)

UpperChar(c) ==
    IF IsLower(c) THEN UpperLetters[CHOOSE i \in 1..26 : LowerLetters[i] = c] ELSE c
LowerChar(c) ==
    IF IsUpper(c) THEN LowerLetters[CHOOSE i \in 1..26 : UpperLetters[i] = c] ELSE c

\* str.upper(), str.lower()
Upper(s) == [i \in 1..Len(s) |-> UpperChar(s[i])]
Lower(s) == [i \in 1..Len(s) |-> LowerChar(s[i])]

\* str.title(): a letter that follows a non-letter is upper-cased, the others lowered
Title(s) ==
    [i \in 1..Len(s) |->
        IF i = 1 \/ ~IsLetter(s[i-1]) THEN UpperChar(s[i]) ELSE LowerChar(s[i])]

MinOf(S) == CHOOSE m \in S : \A n \in S : m <= n
MaxOf(S) == CHOOSE m \in S : \A n \in S : m >= n

\* str.strip(): leading and trailing whitespace removed
Strip(s) ==
    LET keep == {i \in 1..Len(s) : s[i] \notin Whitespace}
    IN  IF keep = {} THEN <<>> ELSE SubSeq(s, MinOf(keep), MaxOf(keep))

\* str.startswith(p)
StartsWith(s, p) == Len(s) >= Len(p) /\ SubSeq(s, 1, Len(p)) = p

\* s[:n]
Take(s, n) == SubSeq(s, 1, IF Len(s) < n THEN Len(s) ELSE n)

\* s[-n:] of a list, n >= 0 (s[-0:] is s[0:], the whole list)
LastN(s, n) ==
    IF n = 0 \/ Len(s) <= n THEN s ELSE SubSeq(s, Len(s) - n + 1, Len(s))

\* str.splitlines(): the lines of s, line breaks removed, no empty last line
RECURSIVE SplitLines(_)
SplitLines(s) ==
    IF s = <<>> THEN <<>>
    ELSE LET brk == {i \in 1..Len(s) : s[i] = NL}
         IN  IF brk = {} THEN <<s>>
             ELSE LET k == MinOf(brk)
                  IN  <<SubSeq(s, 1, k - 1)>> \o SplitLines(SubSeq(s, k + 1, Len(s)))

\* str.split(): the maximal runs of non-whitespace characters
RECURSIVE SplitWords(_)
SplitWords(s) ==
    LET t == Strip(s)
    IN  IF t = <<>> THEN <<>>
        ELSE LET ws == {i \in 1..Len(t) : t[i] \in Whitespace}
             IN  IF ws = {} THEN <<t>>
                 ELSE LET k == MinOf(ws)
                      IN  <<SubSeq(t, 1, k - 1)>> \o SplitWords(SubSeq(t, k + 1, Len(t)))

\* sep.join(parts)
RECURSIVE Join(_, _)
Join(sep, parts) ==
    IF parts = <<>> THEN <<>>
    ELSE IF Len(parts) = 1 THEN parts[1]
    ELSE parts[1] \o sep \o Join(sep, Tail(parts))

\* line.split(":", maxsplit=1)[-1]: what follows the first colon (the whole
\* line when it holds no colon)
AfterFirstColon(line) ==
    LET col == {i \in 1..Len(line) : line[i] = ":"}
    IN  IF col = {} THEN line ELSE SubSeq(line, MinOf(col) + 1, Len(line))

\* truthiness of a str, and Python's `a or b`
Truthy(s) == s # None /\ s # <<>>
OrElse(a, b) == IF Truthy(a) THEN a ELSE b

-----------------------------------------------------------------------------
(* Program constants *)

HANDOFF_PREFIX == <<"H","A","N","D","O","F","F",":">>

Coordinator == <<"c","o","o","r","d","i","n","a","t","o","r">>
Reference == <<"r","e","f","e","r","e","n","c","e">>
Flight == <<"f","l","i","g","h","t">>
Hotel == <<"h","o","t","e","l">>
Activity == <<"a","c","t","i","v","i","t","y">>
Transfer == <<"t","r","a","n","s","f","e","r">>

\* the keys of the AgentSpec list, in its order
build_agent_specs == <<Coordinator, Reference, Flight, Hotel, Activity, Transfer>>

SpecKeys == {build_agent_specs[i] : i \in 1..Len(build_agent_specs)}

\* AgentSpec.name of a key: CoordinatorAgent, FlightAgent, ...
SpecName(key) == Title(key) \o <<"A","g","e","n","t">>

\* no AgentSpec of this variant sets display_name
SpecDisplayName(key) == None

USER == <<"U","s","e","r">>

CONTINUE_PROMPT == <<"C","o","n","t","i","n","u","e"," ","a","s","s","i","s","t","i","n","g"," ","b","a","s","e","d"," ","o","n"," ","t","h","e"," ","l","a","t","e","s","t"," ","u","s","e","r"," ","r","e","q","u","e","s","t",".">>

\* the transcript keeps its newest 40 turns
TRANSCRIPT_MAX == 40
\* the note list keeps its newest 12 notes
NOTES_MAX == 12
\* a note's snippet is cut to 180 characters
SNIPPET_MAX == 180

-----------------------------------------------------------------------------
(* Methods of TravelAgentOrchestrator that compute without suspending *)

ConversationTurn(speaker, role, content) ==
    [speaker |-> speaker, role |-> role, content |-> content]

\* record_turn keeping the oldest turns on overflow (conversation[:40])
record_turn_KeepsOldest(conv, speaker, role, content) ==
    LET appended == Append(conv, ConversationTurn(speaker, role, Strip(content)))
    IN  Take(appended, 40)

\* record_turn: the conversation after the call
record_turn(conv, speaker, role, content) ==
    LET appended == Append(conv, ConversationTurn(speaker, role, Strip(content)))
    IN  IF Len(appended) > TRANSCRIPT_MAX THEN LastN(appended, TRANSCRIPT_MAX)
        ELSE appended

\* capture_trip_note without the test for the coordinator
capture_trip_note_NotesCoordinator(notes, agent_key, text) ==
    LET snippet == Take(Join(<<" ">>, SplitWords(Strip(text))), 180)
    IN  IF snippet # <<>>
        THEN LastN(Append(notes, Title(agent_key) \o <<":", " ">> \o snippet), 12)
        ELSE notes

\* capture_trip_note keeping the oldest notes on overflow (trip_notes[:12])
capture_trip_note_KeepsOldest(notes, agent_key, text) ==
    IF agent_key = Coordinator THEN notes
    ELSE LET snippet == Take(Join(<<" ">>, SplitWords(Strip(text))), 180)
         IN  IF snippet # <<>>
             THEN Take(Append(notes, Title(agent_key) \o <<":", " ">> \o snippet), 12)
             ELSE notes

\* capture_trip_note: the trip notes after the call
capture_trip_note(notes, agent_key, text) ==
    IF agent_key = Coordinator THEN notes
    ELSE LET snippet == Take(Join(<<" ">>, SplitWords(Strip(text))), SNIPPET_MAX)
         IN  IF snippet # <<>>
             THEN LET appended == Append(notes, Title(agent_key) \o <<":", " ">> \o snippet)
                  IN  IF Len(appended) > NOTES_MAX THEN LastN(appended, NOTES_MAX)
                      ELSE appended
             ELSE notes

\* the mapping dictionary of parse_handoff, as mapping.get(target)
MappingGet_DefaultsCoordinator(target) ==
    IF target \in {Coordinator, Flight, Hotel, Activity, Transfer, Reference}
    THEN target ELSE Coordinator

\* mapping.get(target)
MappingGet(target) ==
    IF target \in {Coordinator, Flight, Hotel, Activity, Transfer, Reference}
    THEN target ELSE None

\* parse_handoff without the case folding (no upper() on the line, no lower()
\* on the target)
parse_handoff_CaseSensitive(text) ==
    LET lines == SplitLines(text)
        hits == {i \in 1..Len(lines) : StartsWith(Strip(lines[i]), HANDOFF_PREFIX)}
    IN  IF hits = {} THEN None
        ELSE MappingGet(Strip(AfterFirstColon(Strip(lines[MinOf(hits)]))))

\* parse_handoff: the first line that starts with the prefix decides
parse_handoff(text) ==
    LET lines == SplitLines(text)
        hits == {i \in 1..Len(lines) :
                    StartsWith(Upper(Strip(lines[i])), HANDOFF_PREFIX)}
    IN  IF hits = {} THEN None
        ELSE MappingGet(Lower(Strip(AfterFirstColon(Strip(lines[MinOf(hits)])))))

\* self.agent_labels.get(key, key.title())
LabelOf(labels, key) == IF key \in DOMAIN labels THEN labels[key] ELSE Title(key)

\* What the policy service does with one check: `raises` names the service
\* call that raises ("none": no call raises), `polls` is how often the run
\* was still queued or in progress, `status` is the status the run ends in,
\* `reply` is what messages.list returns for a completed run ("text": the
\* latest message has a text item, "no_text": it has none, "no_messages").
PolicyOutcome(raises, polls, status, reply) ==
    [raises |-> raises, polls |-> polls, status |-> status, reply |-> reply]

ServiceCall(name, raised) == [call |-> name, raised |-> raised]

\* PolicyCalls listing the messages whatever status the run ended in
PolicyCalls_ListsAlways(configured, outcome) ==
    LET polling == [i \in 1..outcome.polls |-> ServiceCall("runs.get", FALSE)]
        first == <<"threads.create", "messages.create", "runs.create">>
    IN  IF ~configured THEN <<>>
        ELSE IF \E n \in 1..3 : first[n] = outcome.raises
        THEN LET n == CHOOSE n \in 1..3 : first[n] = outcome.raises
             IN  [i \in 1..n |-> ServiceCall(first[i], i = n)]
        ELSE [i \in 1..3 |-> ServiceCall(first[i], FALSE)] \o polling
             \o (IF outcome.raises = "runs.get"
                 THEN << ServiceCall("runs.get", TRUE) >>
                 ELSE << ServiceCall("messages.list",
                                     outcome.raises = "messages.list") >>)

\* lines 241-263: the service calls one check makes, in order, up to the one
\* that raises
PolicyCalls(configured, outcome) ==
    LET polling == [i \in 1..outcome.polls |-> ServiceCall("runs.get", FALSE)]
    IN  IF ~configured THEN <<>>
        ELSE CASE outcome.raises = "threads.create" ->
                      << ServiceCall("threads.create", TRUE) >>
               [] outcome.raises = "messages.create" ->
                      << ServiceCall("threads.create", FALSE),
                         ServiceCall("messages.create", TRUE) >>
               [] outcome.raises = "runs.create" ->
                      << ServiceCall("threads.create", FALSE),
                         ServiceCall("messages.create", FALSE),
                         ServiceCall("runs.create", TRUE) >>
               [] outcome.raises = "runs.get" ->
                      << ServiceCall("threads.create", FALSE),
                         ServiceCall("messages.create", FALSE),
                         ServiceCall("runs.create", FALSE) >>
                          \o polling \o << ServiceCall("runs.get", TRUE) >>
               [] OTHER ->
                      << ServiceCall("threads.create", FALSE),
                         ServiceCall("messages.create", FALSE),
                         ServiceCall("runs.create", FALSE) >>
                          \o polling
                          \o (IF outcome.status = "completed"
                              THEN << ServiceCall("messages.list",
                                                  outcome.raises = "messages.list") >>
                              ELSE <<>>)

\* what a call returns when an exception leaves it
PROPAGATES == <<"raise">>

\* check_travel_policy whose try block ends before the polling loop
check_travel_policy_PollingUnguarded(configured, outcome) ==
    IF ~configured THEN None
    ELSE IF outcome.raises \in {"runs.get", "messages.list"} THEN PROPAGATES
    ELSE IF outcome.raises # "none" THEN Msg("Policy check unavailable: exc")
    ELSE IF outcome.status = "completed" /\ outcome.reply = "text"
         THEN Msg("item.text.value")
    ELSE Msg("Policy check completed (no additional details returned).")

\* check_travel_policy: what the call returns
check_travel_policy(configured, outcome) ==
    IF ~configured THEN None
    ELSE IF outcome.raises # "none" THEN Msg("Policy check unavailable: exc")
    ELSE IF outcome.status = "completed" /\ outcome.reply = "text"
         THEN Msg("item.text.value")
    ELSE Msg("Policy check completed (no additional details returned).")

\* render_context: the last `limit` turns, one "speaker: content" line each
render_context(conv, limit) ==
    LET recent == LastN(conv, limit)
        lines == [i \in 1..Len(recent) |->
                     recent[i].speaker \o <<":", " ">> \o recent[i].content]
    IN  Join(<<NL>>, lines)

-----------------------------------------------------------------------------
(* The helper methods of TravelMultiAgentClient
   (Student/Resources/Challenge-08/python/travel_multi_agent_client.py) *)

MAX_TRANSCRIPT_TURNS == 40
MAX_SUMMARY_NOTES == 12
\* a note's snippet is cut to 200 characters
STUDENT_SNIPPET_MAX == 200

\* AgentSpec.display_name of a key: Coordinator, Flight Agent, Hotel Agent, ...
Student_DisplayName(key) ==
    IF key = Coordinator THEN Title(key)
    ELSE Title(key) \o <<" ","A","g","e","n","t">>

\* self.agent_labels as initialize is to fill it: spec.display_name or spec.name
Student_agent_labels == [k \in SpecKeys |-> Student_DisplayName(k)]

Student_ConversationTurn(speaker, content) ==
    [speaker |-> speaker, content |-> content]

\* record_turn: the transcript after the call
Student_record_turn(transcript, speaker, content) ==
    IF Strip(content) = <<>> THEN transcript
    ELSE LET appended ==
                 Append(transcript, Student_ConversationTurn(speaker, Strip(content)))
         IN  IF Len(appended) > MAX_TRANSCRIPT_TURNS
             THEN LastN(appended, MAX_TRANSCRIPT_TURNS) ELSE appended

\* capture_trip_note: the trip notes after the call
Student_capture_trip_note(notes, labels, agent_key, text) ==
    IF agent_key = Coordinator THEN notes
    ELSE LET snippet == Join(<<" ">>, SplitWords(Strip(text)))
         IN  IF snippet = <<>> THEN notes
             ELSE LET appended ==
                          Append(notes, LabelOf(labels, agent_key) \o <<":", " ">>
                                            \o Take(snippet, STUDENT_SNIPPET_MAX))
                  IN  IF Len(appended) > MAX_SUMMARY_NOTES
                      THEN LastN(appended, MAX_SUMMARY_NOTES) ELSE appended

\* run_policy_check: the service calls one check makes; get_agent comes first
Student_PolicyCalls(configured, outcome) ==
    IF ~configured THEN <<>>
    ELSE IF outcome.raises = "get_agent" THEN << ServiceCall("get_agent", TRUE) >>
    ELSE << ServiceCall("get_agent", FALSE) >> \o PolicyCalls(TRUE, outcome)

\* run_policy_check: what the call returns
Student_run_policy_check(configured, outcome) ==
    IF ~configured THEN Msg("Travel policy agent not configured.")
    ELSE IF outcome.raises # "none"
         THEN << "Policy agent request failed: ", "details" >>
    ELSE IF outcome.status # "completed"
         THEN << "Policy agent run failed: ", outcome.status >>
    ELSE IF outcome.reply = "text" THEN Msg("value")
    ELSE Msg("Policy agent completed with an empty response.")

\* render_context: the last `limit` turns, one "speaker: content" line each
Student_render_context(transcript, limit) ==
    LET recent == LastN(transcript, limit)
    IN  Join(<<NL>>, [i \in 1..Len(recent) |->
                         recent[i].speaker \o <<":", " ">> \o recent[i].content])

\* the separator of the notes in a policy summary
SUMMARY_SEPARATOR == <<" ", "|", " ">>

\* build_policy_summary: the notes, or without notes the last eight turns
Student_build_policy_summary(notes, transcript) ==
    IF notes # <<>> THEN Join(SUMMARY_SEPARATOR, notes)
    ELSE Student_render_context(transcript, 8)

-----------------------------------------------------------------------------
(* What the outside world supplies *)

EXIT == <<"e","x","i","t">>
QUIT == <<"q","u","i","t">>
SUMMARY == <<"s","u","m","m","a","r","y">>
POLICY == <<"p","o","l","i","c","y">>

\* the lines a user may type at the prompt
UserInputs ==
    { <<>>,
      <<"e","x","i","t">>,
      <<"Q","u","i","t">>,
      <<"s","u","m","m","a","r","y">>,
      <<"p","o","l","i","c","y">>,
      <<" ","S","u","m","m","a","r","y">>,
      <<"P","O","L","I","C","Y"," ">>,
      <<" ","f","l","y"," ">> }

\* the complete texts an agent may stream
AgentResponses ==
    { <<>>,
      <<"o","k">>,
      <<"H","A","N","D","O","F","F",":","F","l","i","g","h","t">>,
      <<"h","a","n","d","o","f","f",":"," ","h","o","t","e","l",NL,"H","A","N","D","O","F","F",":","C","o","o","r","d","i","n","a","t","o","r">>,
      <<"8","2","0"," ","U","S","D",NL,"H","A","N","D","O","F","F",":","C","o","o","r","d","i","n","a","t","o","r">>,
      <<"H","A","N","D","O","F","F",":","U","n","k","n","o","w","n">> }

\* what the policy service may do with a run
PolicyOutcomes ==
    {PolicyOutcome(c, 0, "completed", "text") :
        c \in {"threads.create", "messages.create", "runs.create", "runs.get",
               "messages.list"}}
    \cup {PolicyOutcome("none", n, st, r) :
             n \in {0, 1},
             st \in {"completed", "failed", "cancelled", "expired"},
             r \in {"text", "no_text", "no_messages"}}

-----------------------------------------------------------------------------
(* Observation of the last dispatch; read by the properties, never by the
   program *)

NoResult == [op |-> "none", arg |-> None, value |-> None, before |-> <<>>]

\* n_inputs and n_dispatches count from 0; a negative counter is switched off
\* and stays as it is
Counted(n) == IF n < 0 THEN n ELSE n + 1

NoDispatch ==
    [outcome |-> "none", role_before |-> None, role |-> None, auto |-> FALSE,
     prompt |-> None,
     response |-> None, target |-> None, conv_before |-> <<>>,
     notes_before |-> <<>>, inputs_before |-> 0, thread |-> 0]

\* secure_weather_server.py: the value API_KEY takes when the environment sets none
DEFAULT_API_KEY ==
    <<"S","u","p","e","r","S","e","c","u","r","e","S","e","c","r","e","t","U",
      "s","e","d","A","s","A","p","i","K","e","y","1">>

-----------------------------------------------------------------------------
(* main() and TravelAgentOrchestrator *)

Init ==
    /\ pc = "init"
    /\ agents = {}
    /\ agent_labels = [k \in {} |-> <<>>]
    /\ agent_threads = [k \in {} |-> 0]
    /\ exit_stack = <<>>
    /\ released = [k \in SpecKeys |-> 0]
    /\ policy_configured = FALSE
    /\ current_agent_key = Coordinator
    /\ pending_auto_agent = None
    /\ pending_auto_prompt = None
    /\ last_user_message = <<>>
    /\ conversation = <<>>
    /\ trip_notes = <<>>
    /\ user_input = <<>>
    /\ agent_label = <<>>
    /\ auto_mode = FALSE
    /\ response_text = <<>>
    /\ stream_rest = <<>>
    /\ output = Msg("none")
    /\ exit_cause = "none"
    /\ n_inputs = 0
    /\ n_dispatches = 0
    /\ last = NoDispatch
    /\ variant = "coach"
    /\ calls = <<>>
    /\ result = [op |-> "none", arg |-> None, value |-> None, before |-> <<>>]
    /\ api_key = DEFAULT_API_KEY

\* the variables of the direct method calls; the session loop leaves them alone
direct == <<variant, calls, result, api_key>>

session == <<current_agent_key, pending_auto_agent, pending_auto_prompt,
             last_user_message, conversation, trip_notes>>
locals == <<user_input, agent_label, auto_mode, response_text, stream_rest>>
registry == <<agents, agent_labels, agent_threads, exit_stack, released,
             policy_configured>>

\* the label initialize_agents gives a role:
\* spec.display_name or getattr(agent, "display_name", None) or spec.key.title()
InitialLabel(key, agent_has_display_name) ==
    OrElse(OrElse(SpecDisplayName(key),
                  IF agent_has_display_name THEN SpecName(key) ELSE None),
           Title(key))

\* CreateAgents giving every agent the same thread
CreateAgents_SharedThread(n, agent_has_display_name) ==
    LET keys == SubSeq(build_agent_specs, 1, n)
        keyset == {keys[i] : i \in 1..n}
    IN  /\ agents' = keyset
        /\ agent_labels' = [k \in keyset |-> InitialLabel(k, agent_has_display_name)]
        /\ agent_threads' = [k \in keyset |-> 1]
        /\ exit_stack' = keys

\* lines 197-202: the first n agents of the list are created, each with a
\* thread of its own
CreateAgents(n, agent_has_display_name) ==
    LET keys == SubSeq(build_agent_specs, 1, n)
        keyset == {keys[i] : i \in 1..n}
    IN  /\ agents' = keyset
        /\ agent_labels' = [k \in keyset |-> InitialLabel(k, agent_has_display_name)]
        /\ agent_threads' = [k \in keyset |-> CHOOSE i \in 1..n : keys[i] = k]
        /\ exit_stack' = keys

\* initialize_agents returns: every agent of the list is entered on the exit
\* stack; the policy agent is configured when its two settings are present
InitializeAgentsOk(agent_has_display_name, policy_settings) ==
    /\ pc = "init"
    /\ CreateAgents(Len(build_agent_specs), agent_has_display_name)
    /\ policy_configured' = policy_settings
    /\ current_agent_key' = Coordinator
    /\ output' = Msg("initialised")
    /\ pc' = "loop"
    /\ UNCHANGED <<direct, released, pending_auto_agent, pending_auto_prompt,
                   last_user_message, conversation, trip_notes, locals,
                   exit_cause, n_inputs, n_dispatches, last>>

\* lines 448-449: ensure_travel_server_available raises (the server script is
\* missing) before the orchestrator is constructed and outside main()'s try:
\* the exception leaves main(), nothing is reported by main() and its finally
\* clause is not reached
EnsureTravelServerFails ==
    /\ pc = "init"
    /\ output' = Msg("traceback")
    /\ exit_cause' = "missing_server"
    /\ pc' = "aborted"
    /\ UNCHANGED <<direct, registry, session, locals, n_inputs, n_dispatches, last>>

\* InitializeAgentsFails with the error reported and the loop started anyway
InitializeAgentsFails_StartsLoop(n, agent_has_display_name) ==
    /\ pc = "init"
    /\ n < Len(build_agent_specs)
    /\ CreateAgents(n, agent_has_display_name)
    /\ output' = Msg("fatal")
    /\ exit_cause' = "fatal"
    /\ pc' = "loop"
    /\ UNCHANGED <<direct, released, policy_configured, session, locals, n_inputs,
                   n_dispatches, last>>

\* InitializeAgentsFails with the agents created outside the exit stack
InitializeAgentsFails_NotOnStack(n, agent_has_display_name) ==
    /\ pc = "init"
    /\ n < Len(build_agent_specs)
    /\ agents' = {build_agent_specs[i] : i \in 1..n}
    /\ agent_labels' = [k \in agents' |-> InitialLabel(k, agent_has_display_name)]
    /\ agent_threads' = [k \in agents' |->
                             CHOOSE i \in 1..n : build_agent_specs[i] = k]
    /\ exit_stack' = <<>>
    /\ output' = Msg("fatal")
    /\ exit_cause' = "fatal"
    /\ pc' = "finally"
    /\ UNCHANGED <<direct, released, policy_configured, session, locals, n_inputs,
                   n_dispatches, last>>

\* initialize_agents raises after n agents were created (n = 0: the settings or
\* the server script are missing); main() reports it and leaves through finally
InitializeAgentsFails(n, agent_has_display_name) ==
    /\ pc = "init"
    /\ n < Len(build_agent_specs)
    /\ CreateAgents(n, agent_has_display_name)
    /\ output' = Msg("fatal")
    /\ exit_cause' = "fatal"
    /\ pc' = "finally"
    /\ UNCHANGED <<direct, released, policy_configured, session, locals, n_inputs,
                   n_dispatches, last>>

\* lines 394-400: the active agent's run_stream is called; `response` is what
\* the agent is going to stream
CallAgent(role_before, role, conv_before, auto, prompt, inputs, response) ==
    /\ response_text' = <<>>
    /\ stream_rest' = response
    /\ n_dispatches' = Counted(n_dispatches)
    /\ output' = Msg("label")
    /\ pc' = "stream"
    /\ last' = [outcome |-> "running", role_before |-> role_before,
                role |-> role, auto |-> auto, prompt |-> prompt, response |-> None,
                target |-> None, conv_before |-> conv_before,
                notes_before |-> trip_notes, inputs_before |-> inputs,
                thread |-> agent_threads[role]]

\* HasPending with the membership test inverted
HasPending_NotIn ==
    pending_auto_agent # None /\ pending_auto_agent \notin agents

\* the test that opens the loop body: a handoff is queued for a known role
HasPending ==
    pending_auto_agent # None /\ pending_auto_agent \in agents

\* AutoDispatch leaving the handoff queued
AutoDispatch_KeepsPending(response) ==
    /\ pc = "loop"
    /\ HasPending
    /\ n_dispatches < MaxDispatches
    /\ current_agent_key' = pending_auto_agent
    /\ user_input' = OrElse(pending_auto_prompt,
                            OrElse(last_user_message, CONTINUE_PROMPT))
    /\ agent_label' = LabelOf(agent_labels, pending_auto_agent)
    /\ auto_mode' = TRUE
    /\ CallAgent(current_agent_key, pending_auto_agent, conversation, TRUE,
                 OrElse(pending_auto_prompt,
                        OrElse(last_user_message, CONTINUE_PROMPT)),
                 n_inputs, response)
    /\ UNCHANGED <<direct, registry, pending_auto_agent, pending_auto_prompt,
                   last_user_message, conversation, trip_notes, exit_cause,
                   n_inputs>>

\* lines 345-359 and 394-400: the queued role is dispatched without a prompt
AutoDispatch(response) ==
    /\ pc = "loop"
    /\ HasPending
    /\ n_dispatches < MaxDispatches
    /\ current_agent_key' = pending_auto_agent
    /\ user_input' = OrElse(pending_auto_prompt,
                            OrElse(last_user_message, CONTINUE_PROMPT))
    /\ pending_auto_agent' = None
    /\ pending_auto_prompt' = None
    /\ agent_label' = LabelOf(agent_labels, pending_auto_agent)
    /\ auto_mode' = TRUE
    /\ CallAgent(current_agent_key, pending_auto_agent, conversation, TRUE,
                 OrElse(pending_auto_prompt,
                        OrElse(last_user_message, CONTINUE_PROMPT)),
                 n_inputs, response)
    /\ UNCHANGED <<direct, registry, last_user_message, conversation, trip_notes,
                   exit_cause, n_inputs>>

\* lines 345, 360-364: nothing is queued, the loop blocks in input()
AwaitInput ==
    /\ pc = "loop"
    /\ ~HasPending
    /\ n_inputs < MaxInputs
    /\ auto_mode' = FALSE
    /\ agent_label' = LabelOf(agent_labels, current_agent_key)
    /\ output' = Msg("prompt")
    /\ calls' = <<>>
    /\ result' = NoResult
    /\ pc' = "input"
    /\ UNCHANGED <<variant, api_key, registry, session, user_input,
                   response_text, stream_rest, exit_cause, n_inputs, n_dispatches,
                   last>>

\* IsCommand without the policy command
IsCommand_NoPolicy(lowered) == lowered \in {EXIT, QUIT, SUMMARY}

\* input() returned `raw`; the four ways of not dispatching and the dispatch
IsCommand(lowered) == lowered \in {EXIT, QUIT, SUMMARY, POLICY}

\* lines 366-367: an empty line
ReadEmpty(raw) ==
    /\ pc = "input"
    /\ Strip(raw) = <<>>
    /\ user_input' = Strip(raw)
    /\ n_inputs' = Counted(n_inputs)
    /\ pc' = "loop"
    /\ UNCHANGED <<direct, registry, session, agent_label, auto_mode, response_text,
                   stream_rest, output, exit_cause, n_dispatches, last>>

\* lines 369-372: exit or quit
ReadExit(raw) ==
    /\ pc = "input"
    /\ Lower(Strip(raw)) \in {EXIT, QUIT}
    /\ user_input' = Strip(raw)
    /\ n_inputs' = Counted(n_inputs)
    /\ output' = Msg("thanks")
    /\ exit_cause' = "exit"
    /\ pc' = "finally"
    /\ UNCHANGED <<direct, registry, session, agent_label, auto_mode, response_text,
                   stream_rest, n_dispatches, last>>

\* ReadSummary recording the command as a user turn
ReadSummary_RecordsTurn(raw) ==
    /\ pc = "input"
    /\ Lower(Strip(raw)) = SUMMARY
    /\ user_input' = Strip(raw)
    /\ n_inputs' = Counted(n_inputs)
    /\ output' = IF trip_notes # <<>> THEN Msg("summary") ELSE Msg("no_summary")
    /\ last_user_message' = Strip(raw)
    /\ conversation' = record_turn(conversation, USER, "user", Strip(raw))
    /\ pc' = "loop"
    /\ UNCHANGED <<direct, registry, current_agent_key, pending_auto_agent,
                   pending_auto_prompt, trip_notes, agent_label, auto_mode,
                   response_text, stream_rest, exit_cause, n_dispatches, last>>

\* lines 374-379: summary
ReadSummary(raw) ==
    /\ pc = "input"
    /\ Lower(Strip(raw)) = SUMMARY
    /\ user_input' = Strip(raw)
    /\ n_inputs' = Counted(n_inputs)
    /\ output' = IF trip_notes # <<>> THEN Msg("summary") ELSE Msg("no_summary")
    /\ pc' = "loop"
    /\ UNCHANGED <<direct, registry, session, agent_label, auto_mode, response_text,
                   stream_rest, exit_cause, n_dispatches, last>>

\* lines 381-389: policy
ReadPolicy(raw, outcome) ==
    /\ pc = "input"
    /\ Lower(Strip(raw)) = POLICY
    /\ user_input' = Strip(raw)
    /\ n_inputs' = Counted(n_inputs)
    /\ output' = IF trip_notes = <<>> THEN Msg("add_details")
                 ELSE IF check_travel_policy(policy_configured, outcome) = PROPAGATES
                      THEN Msg("error")
                 ELSE OrElse(check_travel_policy(policy_configured, outcome),
                             Msg("Policy check unavailable."))
    /\ calls' = IF trip_notes = <<>> THEN <<>>
                ELSE PolicyCalls(policy_configured, outcome)
    /\ result' = IF trip_notes = <<>> THEN NoResult
                 ELSE [op |-> "check_travel_policy",
                       arg |-> Join(SUMMARY_SEPARATOR, trip_notes),
                       value |-> check_travel_policy(policy_configured, outcome),
                       before |-> <<>>]
    /\ pc' = "loop"
    /\ UNCHANGED <<variant, api_key, registry, session, agent_label, auto_mode,
                   response_text, stream_rest, exit_cause, n_dispatches, last>>

\* lines 391-400: any other line is recorded and sent to the active agent
ReadMessage(raw, response) ==
    /\ pc = "input"
    /\ Strip(raw) # <<>>
    /\ ~IsCommand(Lower(Strip(raw)))
    /\ n_dispatches < MaxDispatches
    /\ user_input' = Strip(raw)
    /\ n_inputs' = Counted(n_inputs)
    /\ last_user_message' = Strip(raw)
    /\ conversation' = record_turn(conversation, USER, "user", Strip(raw))
    /\ CallAgent(current_agent_key, current_agent_key,
                 record_turn(conversation, USER, "user", Strip(raw)),
                 auto_mode, Strip(raw), Counted(n_inputs), response)
    /\ UNCHANGED <<direct, registry, current_agent_key, pending_auto_agent,
                   pending_auto_prompt, trip_notes, agent_label, auto_mode,
                   exit_cause>>

\* HandleException leaving the loop instead of going on
HandleException_Breaks ==
    /\ output' = Msg("error")
    /\ pc' = "finally"

\* lines 428-429: an Exception is reported and the loop goes on
HandleException ==
    /\ output' = Msg("error")
    /\ pc' = "loop"

\* HandleInterrupt going on with the loop as after an Exception
HandleInterrupt_Continues(cancelled) ==
    /\ output' = IF cancelled THEN Msg("cancelled") ELSE Msg("interrupted")
    /\ exit_cause' = "interrupt"
    /\ pc' = "loop"

\* lines 425-427: KeyboardInterrupt ends the loop.  When the interrupt reaches
\* the coroutine as a cancellation of its await instead, it passes both
\* handlers and main() is left through its finally clause.
HandleInterrupt(cancelled) ==
    /\ output' = IF cancelled THEN Msg("cancelled") ELSE Msg("interrupted")
    /\ exit_cause' = "interrupt"
    /\ pc' = "finally"

\* input() raises (end of input)
InputError ==
    /\ pc = "input"
    /\ n_inputs' = Counted(n_inputs)
    /\ HandleException
    /\ UNCHANGED <<direct, registry, session, locals, exit_cause, n_dispatches, last>>

\* interrupt while input() blocks: input() is no await, so only
\* KeyboardInterrupt can be raised there
InputInterrupt ==
    /\ pc = "input"
    /\ HandleInterrupt(FALSE)
    /\ UNCHANGED <<direct, registry, session, locals, n_inputs, n_dispatches, last>>

\* the fragment sizes the stream may deliver next
FragmentSizes(rest) == {k \in {ChunkLen, Len(rest)} : 1 <= k /\ k <= Len(rest)}

\* StreamFragment resolving the handoff of the text streamed so far
StreamFragment_ResolvesEarly(k) ==
    /\ pc = "stream"
    /\ k \in FragmentSizes(stream_rest)
    /\ response_text' = response_text \o SubSeq(stream_rest, 1, k)
    /\ stream_rest' = SubSeq(stream_rest, k + 1, Len(stream_rest))
    /\ output' = Msg("fragment")
    /\ current_agent_key' =
           (IF parse_handoff(response_text') \in agents
            THEN parse_handoff(response_text') ELSE current_agent_key)
    /\ UNCHANGED <<direct, registry, pending_auto_agent, pending_auto_prompt,
                   last_user_message, conversation, trip_notes, user_input,
                   agent_label, auto_mode, pc, exit_cause, n_inputs, n_dispatches,
                   last>>

\* lines 400-403: one update with text arrives
StreamFragment(k) ==
    /\ pc = "stream"
    /\ k \in FragmentSizes(stream_rest)
    /\ response_text' = response_text \o SubSeq(stream_rest, 1, k)
    /\ stream_rest' = SubSeq(stream_rest, k + 1, Len(stream_rest))
    /\ output' = Msg("fragment")
    /\ UNCHANGED <<direct, registry, session, user_input, agent_label, auto_mode, pc,
                   exit_cause, n_inputs, n_dispatches, last>>

\* lines 400-401: an update without text is skipped
StreamEmptyUpdate ==
    /\ pc = "stream"
    /\ UNCHANGED vars

\* ResolvedAgent not giving control back to the coordinator
ResolvedAgent_KeepsSpecialist(cur, target, known) ==
    IF target # None /\ target \in known /\ target # cur /\ target # Coordinator
    THEN target ELSE cur

\* lines 410-412: the active role after the handoff is resolved
ResolvedAgent(cur, target, known) ==
    IF target # None /\ target \in known /\ target # cur THEN target ELSE cur

\* QueuedAgent without the test for the role that is speaking
QueuedAgent_SelfTarget(pending, cur, target, known) ==
    IF target # None /\ target \in known /\ target # Coordinator
    THEN target ELSE pending

\* QueuedAgent without the test for the coordinator
QueuedAgent_AnyTarget(pending, cur, target, known) ==
    IF target # None /\ target \in known /\ target # cur THEN target ELSE pending

\* lines 410-417: the role queued for auto-dispatch
QueuedAgent(pending, cur, target, known) ==
    IF target # None /\ target \in known /\ target # cur /\ target # Coordinator
    THEN target ELSE pending

\* QueuedPrompt preferring the last user message to the response
QueuedPrompt_LastMessageFirst(pending, cur, target, known, text, last_message) ==
    IF target # None /\ target \in known /\ target # cur /\ target # Coordinator
    THEN OrElse(last_message, OrElse(text, CONTINUE_PROMPT)) ELSE pending

\* lines 410-422: the prompt queued for auto-dispatch
QueuedPrompt(pending, cur, target, known, text, last_message) ==
    IF target # None /\ target \in known /\ target # cur /\ target # Coordinator
    THEN OrElse(text, OrElse(last_message, CONTINUE_PROMPT)) ELSE pending

\* StreamEnd recording the turn under the label of the role handed to
StreamEnd_LabelsTarget ==
    /\ pc = "stream"
    /\ stream_rest = <<>>
    /\ LET target == parse_handoff(response_text)
       IN  /\ conversation' =
                  record_turn(conversation,
                              LabelOf(agent_labels,
                                      ResolvedAgent(current_agent_key, target, agents)),
                              "assistant", response_text)
           /\ trip_notes' =
                  capture_trip_note(trip_notes, current_agent_key, response_text)
           /\ current_agent_key' = ResolvedAgent(current_agent_key, target, agents)
           /\ pending_auto_agent' =
                  QueuedAgent(pending_auto_agent, current_agent_key, target, agents)
           /\ pending_auto_prompt' =
                  QueuedPrompt(pending_auto_prompt, current_agent_key, target, agents,
                               response_text, last_user_message)
           /\ output' = IF current_agent_key' # current_agent_key
                        THEN Msg("handoff") ELSE Msg("response")
           /\ last' = [last EXCEPT !.outcome = "completed",
                                   !.response = response_text,
                                   !.target = target]
    /\ pc' = "loop"
    /\ UNCHANGED <<direct, registry, last_user_message, locals, exit_cause, n_inputs,
                   n_dispatches>>

\* lines 404-423: the stream is exhausted; the turn is recorded, a note is
\* captured and the handoff is resolved
StreamEnd ==
    /\ pc = "stream"
    /\ stream_rest = <<>>
    /\ LET target == parse_handoff(response_text)
       IN  /\ conversation' =
                  record_turn(conversation, agent_label, "assistant", response_text)
           /\ trip_notes' =
                  capture_trip_note(trip_notes, current_agent_key, response_text)
           /\ current_agent_key' = ResolvedAgent(current_agent_key, target, agents)
           /\ pending_auto_agent' =
                  QueuedAgent(pending_auto_agent, current_agent_key, target, agents)
           /\ pending_auto_prompt' =
                  QueuedPrompt(pending_auto_prompt, current_agent_key, target, agents,
                               response_text, last_user_message)
           /\ output' = IF current_agent_key' # current_agent_key
                        THEN Msg("handoff") ELSE Msg("response")
           /\ last' = [last EXCEPT !.outcome = "completed",
                                   !.response = response_text,
                                   !.target = target]
    /\ pc' = "loop"
    /\ UNCHANGED <<direct, registry, last_user_message, locals, exit_cause, n_inputs,
                   n_dispatches>>

\* StreamError resolving the handoff of what was streamed before the error
StreamError_AppliesHandoff ==
    /\ pc = "stream"
    /\ HandleException
    /\ last' = [last EXCEPT !.outcome = "failed"]
    /\ current_agent_key' =
           ResolvedAgent(current_agent_key, parse_handoff(response_text), agents)
    /\ UNCHANGED <<direct, registry, pending_auto_agent, pending_auto_prompt,
                   last_user_message, conversation, trip_notes, locals,
                   exit_cause, n_inputs, n_dispatches>>

\* StreamError recording what was streamed before the error
StreamError_RecordsPartial ==
    /\ pc = "stream"
    /\ HandleException
    /\ last' = [last EXCEPT !.outcome = "failed"]
    /\ conversation' =
           record_turn(conversation, agent_label, "assistant", response_text)
    /\ trip_notes' = capture_trip_note(trip_notes, current_agent_key, response_text)
    /\ UNCHANGED <<direct, registry, current_agent_key, pending_auto_agent,
                   pending_auto_prompt, last_user_message, locals, exit_cause,
                   n_inputs, n_dispatches>>

\* run_stream raises, before the first fragment or between two fragments
StreamError ==
    /\ pc = "stream"
    /\ HandleException
    /\ last' = [last EXCEPT !.outcome = "failed"]
    /\ UNCHANGED <<direct, registry, session, locals, exit_cause, n_inputs, n_dispatches>>

\* interrupt while the stream is consumed
StreamInterrupt(cancelled) ==
    /\ pc = "stream"
    /\ HandleInterrupt(cancelled)
    /\ last' = [last EXCEPT !.outcome = "interrupted"]
    /\ UNCHANGED <<direct, registry, session, locals, n_inputs, n_dispatches>>

\* Cleanup exiting every context twice
Cleanup_Twice ==
    /\ pc = "finally"
    /\ released' = [k \in SpecKeys |->
                       released[k] + 2 * Cardinality({i \in 1..Len(exit_stack) :
                                                         exit_stack[i] = k})]
    /\ exit_stack' = <<>>
    /\ pc' = "closed"
    /\ UNCHANGED <<direct, agents, agent_labels, agent_threads, policy_configured,
                   session, locals,
                   output, exit_cause, n_inputs, n_dispatches, last>>

\* cleanup(): exit_stack.aclose() exits every context entered, and empties
\* the stack
Cleanup ==
    /\ pc = "finally"
    /\ released' = [k \in SpecKeys |->
                       released[k] + Cardinality({i \in 1..Len(exit_stack) :
                                                     exit_stack[i] = k})]
    /\ exit_stack' = <<>>
    /\ pc' = "closed"
    /\ UNCHANGED <<direct, agents, agent_labels, agent_threads, policy_configured,
                   session, locals,
                   output, exit_cause, n_inputs, n_dispatches, last>>

Next ==
    \/ EnsureTravelServerFails
    \/ \E d \in BOOLEAN, p \in BOOLEAN : InitializeAgentsOk(d, p)
    \/ \E n \in 0..Len(build_agent_specs), d \in BOOLEAN : InitializeAgentsFails(n, d)
    \/ \E r \in AgentResponses : AutoDispatch(r)
    \/ AwaitInput
    \/ \E raw \in UserInputs : ReadEmpty(raw)
    \/ \E raw \in UserInputs : ReadExit(raw)
    \/ \E raw \in UserInputs : ReadSummary(raw)
    \/ \E raw \in UserInputs, o \in PolicyOutcomes : ReadPolicy(raw, o)
    \/ \E raw \in UserInputs, r \in AgentResponses : ReadMessage(raw, r)
    \/ InputError
    \/ InputInterrupt
    \/ \E k \in 1..Len(stream_rest) : StreamFragment(k)
    \/ StreamEmptyUpdate
    \/ StreamEnd
    \/ StreamError
    \/ \E c \in BOOLEAN : StreamInterrupt(c)
    \/ Cleanup

Spec == Init /\ [][Next]_vars

\* main() always reaches its finally clause once the loop is left
LiveSpec == Spec /\ WF_vars(Cleanup)

-----------------------------------------------------------------------------
(* Vocabulary of the properties *)

AwaitingUserInput == pc = "input"
Terminated == pc \in {"finally", "closed"}
InLoop == pc \in {"loop", "input", "stream"}

\* the control prefix occurs somewhere in the text, in any letter case
ContainsPrefix(text) ==
    \E i \in 1..Len(text) :
        StartsWith(Upper(SubSeq(text, i, Len(text))), HANDOFF_PREFIX)

\* the step that completes a dispatch (lines 404-423)
CompletesDispatch == pc = "stream" /\ last'.outcome = "completed"
\* the step in which the agent call of a dispatch fails
FailsDispatch == pc = "stream" /\ last'.outcome = "failed"

RESPONSE_TO_FLIGHT == <<"H","A","N","D","O","F","F",":","F","l","i","g","h","t">>
RESPONSE_PRICES_BACK == <<"8","2","0"," ","U","S","D",NL,"H","A","N","D","O","F","F",":","C","o","o","r","d","i","n","a","t","o","r">>
FLIGHT_REQUEST == <<"f","l","y">>

-----------------------------------------------------------------------------
(* C1 *)

\* C1: whenever a specialist completed a dispatch whose response holds no
\* handoff marker, the loop awaits user input only with the coordinator as the
\* active role.
C1_SpecialistWithoutMarkerReverts ==
    ( /\ AwaitingUserInput
      /\ last.outcome = "completed"
      /\ last.role # Coordinator
      /\ ~ContainsPrefix(last.response) )
    => current_agent_key = Coordinator

-----------------------------------------------------------------------------
(* C2 *)

\* the state scenario 1 ends in: one input was read, and the transcript holds
\* the flight request, the coordinator's handoff and the flight agent's prices
Scenario1Played ==
    /\ pc = "loop"
    /\ n_inputs = 1
    /\ Len(conversation) = 3
    /\ conversation[1].content = FLIGHT_REQUEST
    /\ conversation[2].content = RESPONSE_TO_FLIGHT
    /\ conversation[3].content = RESPONSE_PRICES_BACK
    /\ last.outcome = "completed"

\* C2: after scenario 1 the flight agent was dispatched automatically (no
\* second prompt), the coordinator is active, nothing is pending, and the one
\* trip note is prefixed "Flight Agent:".
C2_Scenario1 ==
    Scenario1Played =>
        /\ n_dispatches = 2
        /\ last.auto /\ last.role = Flight /\ last.inputs_before = 1
        /\ current_agent_key = Coordinator
        /\ pending_auto_agent = None
        /\ Len(trip_notes) = 1
        /\ StartsWith(trip_notes[1],
                      <<"F","l","i","g","h","t"," ","A","g","e","n","t",":">>)

\* what holds of scenario 1 instead: the note is prefixed with the title-cased
\* role key, "Flight:"
Scenario1_NotePrefixedWithKey ==
    Scenario1Played =>
        /\ n_dispatches = 2
        /\ last.auto /\ last.role = Flight /\ last.inputs_before = 1
        /\ current_agent_key = Coordinator
        /\ pending_auto_agent = None
        /\ Len(trip_notes) = 1
        /\ StartsWith(trip_notes[1], <<"F","l","i","g","h","t",":"," ">>)

-----------------------------------------------------------------------------
(* C3 *)

\* C3: user input is never awaited while a handoff is pending, and the step
\* that follows a state with a pending handoff dispatches the queued role
\* without an input() call.
C3_PendingServedBeforePrompt ==
    /\ [](pending_auto_agent # None => pc = "loop")
    /\ [][pending_auto_agent # None =>
            /\ pc' = "stream"
            /\ last'.auto /\ last'.role = pending_auto_agent
            /\ current_agent_key' = pending_auto_agent
            /\ n_inputs' = n_inputs
            /\ n_dispatches' = n_dispatches + 1]_vars

\* an auto-dispatch is under way
C3_Witness ==
    pc = "stream" /\ last.auto /\ last.outcome = "running" /\ last.role = Flight

-----------------------------------------------------------------------------
(* C4 *)

\* C4: when a completed dispatch's response resolves to a non-coordinator role
\* other than the one that produced it, the active role becomes that target,
\* the target is queued with the full response text as its prompt, and the
\* next dispatch is to that target with that prompt.
C4_HandoffToSpecialist ==
    /\ [][CompletesDispatch =>
            LET target == parse_handoff(response_text)
            IN  (target \in agents \ {Coordinator, current_agent_key}) =>
                    /\ current_agent_key' = target
                    /\ pending_auto_agent' = target
                    /\ pending_auto_prompt' = response_text
                    /\ pc' = "loop"]_vars
    /\ [][(pending_auto_agent # None /\ n_dispatches' # n_dispatches) =>
            /\ last'.role = pending_auto_agent
            /\ last'.prompt = pending_auto_prompt
            /\ user_input' = pending_auto_prompt]_vars

\* a specialist handed off to another specialist
C4_Witness ==
    /\ pc = "loop"
    /\ last.outcome = "completed" /\ last.role = Flight
    /\ pending_auto_agent = Hotel
    /\ pending_auto_prompt = last.response

-----------------------------------------------------------------------------
(* C5 *)

\* C5: when a specialist's response resolves to the coordinator, the active
\* role becomes the coordinator, nothing is queued, and the next step awaits
\* user input without dispatching.
C5_HandoffBackToCoordinator ==
    /\ [][(CompletesDispatch /\ current_agent_key # Coordinator
             /\ parse_handoff(response_text) = Coordinator) =>
            /\ current_agent_key' = Coordinator
            /\ pending_auto_agent' = None
            /\ pending_auto_prompt' = None
            /\ pc' = "loop"]_vars
    /\ [][(pc = "loop" /\ last.outcome = "completed" /\ last.role # Coordinator
             /\ last.target = Coordinator) =>
            /\ pc' = "input"
            /\ n_dispatches' = n_dispatches
            /\ current_agent_key' = Coordinator]_vars

\* the loop awaits input after the flight agent handed back
C5_Witness ==
    /\ AwaitingUserInput
    /\ last.outcome = "completed" /\ last.role = Flight
    /\ last.target = Coordinator
    /\ current_agent_key = Coordinator

-----------------------------------------------------------------------------
(* C6 *)

\* C6: when the agent call of a dispatch raises, the error is reported, the
\* loop is not left, the active role is the one that was active when the
\* dispatch began, nothing is queued, and the next step awaits user input.
C6_DispatchErrorKeepsRole ==
    /\ [][FailsDispatch =>
            /\ output' = Msg("error")
            /\ pc' = "loop"
            /\ current_agent_key' = last.role_before
            /\ pending_auto_agent' = None
            /\ pending_auto_prompt' = None]_vars
    /\ [][(pc = "loop" /\ last.outcome = "failed") =>
            /\ pc' = "input"
            /\ current_agent_key' = last.role_before
            /\ n_dispatches' = n_dispatches]_vars

\* an auto-dispatched call failed between two fragments and the loop awaits
\* input
C6_Witness ==
    /\ AwaitingUserInput
    /\ last.outcome = "failed" /\ last.auto
    /\ response_text # <<>>
    /\ current_agent_key = Flight

-----------------------------------------------------------------------------
(* C7 *)

\* C7: when the agent call of a dispatch fails, the transcript and the trip
\* notes are what they were just before the agent was called, whatever was
\* streamed.
C7_FailedDispatchRecordsNothing ==
    [][FailsDispatch =>
        /\ conversation' = last.conv_before
        /\ trip_notes' = last.notes_before]_vars

\* a specialist's call failed after text had been streamed
C7_Witness ==
    /\ pc = "loop"
    /\ last.outcome = "failed" /\ last.role = Flight
    /\ response_text # <<>>
    /\ conversation = last.conv_before

-----------------------------------------------------------------------------
(* C8 *)

\* C8: the loop is left only by the exit/quit command or by an interrupt; a
\* step that reports an error, and the policy and summary commands, stay in
\* the loop.
C8_OnlyExitOrInterruptTerminates ==
    /\ [][(InLoop /\ ~InLoop') =>
            \/ /\ pc = "input" /\ n_inputs' = n_inputs + 1
               /\ Lower(user_input') \in {EXIT, QUIT}
            \/ /\ pc \in {"input", "stream"}
               /\ output' \in {Msg("interrupted"), Msg("cancelled")}]_vars
    /\ [][(InLoop /\ output' = Msg("error")) => pc' = "loop"]_vars
    /\ [][(pc = "input" /\ Lower(user_input') \in {SUMMARY, POLICY}
             /\ n_inputs' = n_inputs + 1) => pc' = "loop"]_vars

\* the policy service raised and the loop goes on
C8_Witness ==
    /\ pc = "loop"
    /\ output = Msg("Policy check unavailable: exc")
    /\ exit_cause = "none"

-----------------------------------------------------------------------------
(* C9 *)

-----------------------------------------------------------------------------
(* C10 *)

\* C10: an interrupt while the loop waits for input or consumes a stream
\* leaves the loop with the session state as it was (no turn, no note, no
\* handoff), nothing is read or dispatched afterwards, and teardown runs.
C10_InterruptTerminates ==
    /\ [][(InLoop /\ output' \in {Msg("interrupted"), Msg("cancelled")}) =>
            /\ Terminated'
            /\ UNCHANGED session]_vars
    /\ [][exit_cause = "interrupt" =>
            /\ UNCHANGED <<session, n_inputs, n_dispatches>>
            /\ pc' = "closed"]_vars
    /\ (exit_cause = "interrupt" ~> pc = "closed")

\* the session was closed after an interrupt in the middle of a stream that
\* carried a handoff
C10_Witness ==
    /\ pc = "closed"
    /\ last.outcome = "interrupted"
    /\ parse_handoff(response_text) = Flight
    /\ current_agent_key = Coordinator
    /\ pending_auto_agent = None

-----------------------------------------------------------------------------
(* The methods called directly, outside a session: the transcript *)

\* at most this many record_turn calls
MaxRecordCalls == 50
\* render_context is called with the limits 0..MaxLimit
MaxLimit == 8

\* the state of a constructed object on which methods are called directly
ObjectInit(position, label_maps) ==
    /\ pc = position
    /\ variant \in {"coach", "student"}
    /\ agent_labels \in label_maps
    /\ agent_threads = [k \in {} |-> 0]
    /\ calls = <<>>
    /\ result = NoResult
    /\ agents = {}
    /\ exit_stack = <<>>
    /\ released = [k \in SpecKeys |-> 0]
    /\ policy_configured = FALSE
    /\ current_agent_key = Coordinator
    /\ pending_auto_agent = None
    /\ pending_auto_prompt = None
    /\ last_user_message = <<>>
    /\ conversation = <<>>
    /\ trip_notes = <<>>
    /\ user_input = <<>>
    /\ agent_label = <<>>
    /\ auto_mode = FALSE
    /\ response_text = <<>>
    /\ stream_rest = <<>>
    /\ output = Msg("none")
    /\ exit_cause = "none"
    /\ n_inputs = 0
    /\ n_dispatches = 0
    /\ last = NoDispatch

DirectInit(position, label_maps) ==
    /\ ObjectInit(position, label_maps)
    /\ api_key = DEFAULT_API_KEY

\* the (speaker, content) pairs record_turn is called with, in the order the
\* later calls go round them
TurnArgs ==
    << [speaker |-> USER, content |-> <<"h","i">>],
       [speaker |-> Title(Flight), content |-> <<"8","2","0"," ","U","S","D",NL>>],
       [speaker |-> USER, content |-> <<" ","f","l","y"," ">>],
       [speaker |-> Title(Coordinator), content |-> <<" ","\t">>],
       [speaker |-> Title(Hotel), content |-> <<"o","k">>],
       [speaker |-> USER, content |-> <<"d","e","p"," ","9","a","m">>] >>

\* the arguments allowed for the next call, as indices into `args`: any for
\* the first call, then the one that follows the previous call's
NextArgs(args, made) ==
    IF made = <<>> THEN 1..Len(args)
    ELSE {(made[Len(made)].arg % Len(args)) + 1}

\* one call of record_turn (of either class)
RecordTurnCall(i) ==
    /\ pc = "transcript"
    /\ Len(calls) < MaxRecordCalls
    /\ i \in NextArgs(TurnArgs, calls)
    /\ LET a == TurnArgs[i]
       IN  /\ conversation' =
                  IF variant = "coach"
                  THEN record_turn(conversation, a.speaker,
                                   IF a.speaker = USER THEN "user" ELSE "assistant",
                                   a.content)
                  ELSE Student_record_turn(conversation, a.speaker, a.content)
           /\ calls' = Append(calls, [arg |-> i, speaker |-> a.speaker,
                                      content |-> a.content])
    /\ result' = NoResult
    /\ UNCHANGED <<pc, variant, api_key, registry, current_agent_key, pending_auto_agent,
                   pending_auto_prompt, last_user_message, trip_notes, locals,
                   output, exit_cause, n_inputs, n_dispatches, last>>

\* one call of render_context (of either class)
RenderCall(limit) ==
    /\ pc = "transcript"
    /\ result' = [op |-> "render", arg |-> limit,
                  value |-> IF variant = "coach"
                            THEN render_context(conversation, limit)
                            ELSE Student_render_context(conversation, limit),
                  before |-> conversation]
    /\ UNCHANGED <<pc, variant, api_key, calls, registry, session, locals, output,
                   exit_cause, n_inputs, n_dispatches, last>>

TranscriptNext ==
    \/ \E i \in 1..Len(TurnArgs) : RecordTurnCall(i)
    \/ \E limit \in 0..MaxLimit : RenderCall(limit)

NoLabels == [k \in {} |-> <<>>]

TranscriptInit == DirectInit("transcript", {NoLabels})

TranscriptSpec == TranscriptInit /\ [][TranscriptNext]_vars

\* the calls of record_turn so far that appended a turn: all of them in the
\* coach class, those with content left after strip() in the student class
AppendsTurn(a) == variant = "coach" \/ Strip(a.content) # <<>>
AppendedTurns == SelectSeq(calls, AppendsTurn)

-----------------------------------------------------------------------------
(* C11 *)

\* C11: after any sequence of record_turn calls the transcript holds at most
\* 40 turns, and they are the most recently appended turns (40 of them once
\* that many were appended), in the order they were appended.
C11_TranscriptHoldsNewest40 ==
    pc = "transcript" =>
        LET n == Len(AppendedTurns)
            m == IF n < 40 THEN n ELSE 40
        IN  /\ Len(conversation) = m
            /\ \A i \in 1..m :
                   /\ conversation[i].speaker = AppendedTurns[n - m + i].speaker
                   /\ conversation[i].content = Strip(AppendedTurns[n - m + i].content)

\* more than 40 turns were appended and the transcript is full
C11_Witness ==
    /\ pc = "transcript"
    /\ Len(AppendedTurns) > 40
    /\ Len(conversation) = 40
    /\ conversation[1].content # Strip(AppendedTurns[1].content)

-----------------------------------------------------------------------------
(* C12 *)

\* C12: for a transcript of n turns and a limit k >= 0, render_context(k)
\* returns the last min(k, n) turns, oldest first, each as "speaker: content",
\* joined by line breaks, and the transcript is what it was before the call.
C12_RenderLastMin ==
    result.op = "render" =>
        LET n == Len(result.before)
            m == IF result.arg < n THEN result.arg ELSE n
            lines == [i \in 1..m |->
                         result.before[n - m + i].speaker \o <<":", " ">>
                             \o result.before[n - m + i].content]
        IN  /\ result.value = Join(<<NL>>, lines)
            /\ conversation = result.before

-----------------------------------------------------------------------------
(* C13 *)

\* C13: no turn of the transcript has empty content: a record_turn call whose
\* content is empty after strip() appends nothing, also when the content is an
\* agent's streamed response that turned out empty.
C13_NoEmptyTurn ==
    \A i \in 1..Len(conversation) : conversation[i].content # <<>>

-----------------------------------------------------------------------------
(* The methods called directly, outside a session: the trip notes *)

\* at most this many capture_trip_note calls
MaxCaptureCalls == 20

\* a response text of n characters: two words, two spaces between
LongText(n) == [i \in 1..n |-> IF i \in {4, 5} THEN " " ELSE "x"]

\* the (agent_key, text) pairs capture_trip_note is called with, in the order
\* the later calls go round them
NoteArgs ==
    << [agent_key |-> Flight, text |-> <<"8","2","0"," ","U","S","D",NL>>],
       [agent_key |-> Coordinator, text |-> <<"p","l","a","n"," ","o","k">>],
       [agent_key |-> Hotel, text |-> <<" "," ","a"," ","\t"," ","b"," ">>],
       [agent_key |-> Activity, text |-> <<" ","\t">>],
       [agent_key |-> Transfer, text |-> LongText(250)],
       [agent_key |-> Reference, text |-> LongText(200)],
       [agent_key |-> Flight, text |-> LongText(181)] >>

\* capture_trip_note of the class called
Capture(notes, a) ==
    IF variant = "coach"
    THEN capture_trip_note(notes, a.agent_key, a.text)
    ELSE Student_capture_trip_note(notes, agent_labels, a.agent_key, a.text)

\* one call of capture_trip_note (of either class)
CaptureCall(i) ==
    /\ pc = "notes"
    /\ Len(calls) < MaxCaptureCalls
    /\ i \in NextArgs(NoteArgs, calls)
    /\ LET a == NoteArgs[i]
       IN  /\ trip_notes' = Capture(trip_notes, a)
           /\ calls' = Append(calls, [arg |-> i, agent_key |-> a.agent_key,
                                      stored |-> Capture(<<>>, a)])
           /\ result' = [op |-> "capture", arg |-> a.agent_key, value |-> a.text,
                         before |-> trip_notes]
    /\ UNCHANGED <<pc, variant, api_key, registry, current_agent_key, pending_auto_agent,
                   pending_auto_prompt, last_user_message, conversation, locals,
                   output, exit_cause, n_inputs, n_dispatches, last>>

NotesNext == \E i \in 1..Len(NoteArgs) : CaptureCall(i)

\* the student class fills agent_labels in initialize(); before that the
\* key's title() is the label
NotesInit == DirectInit("notes", {NoLabels, Student_agent_labels})

NotesSpec == NotesInit /\ [][NotesNext]_vars

\* the notes the calls so far stored (`stored` holds the note a call adds to
\* an empty list: none or one), in the order of the calls
RECURSIVE CapturedNotes(_)
CapturedNotes(made) ==
    IF made = <<>> THEN <<>>
    ELSE CapturedNotes(SubSeq(made, 1, Len(made) - 1)) \o made[Len(made)].stored

-----------------------------------------------------------------------------
(* C14 *)

\* C14: after any sequence of capture_trip_note calls the trip notes are at
\* most 12, and they are the most recently captured notes (12 of them once
\* that many were captured), in the order they were captured.
C14_NotesHoldNewest12 ==
    pc = "notes" =>
        LET captured == CapturedNotes(calls)
            n == Len(captured)
            m == IF n < 12 THEN n ELSE 12
        IN  /\ Len(trip_notes) = m
            /\ \A i \in 1..m : trip_notes[i] = captured[n - m + i]

\* more than 12 notes were captured and the oldest is gone
C14_Witness ==
    /\ pc = "notes"
    /\ Len(CapturedNotes(calls)) > 12
    /\ Len(trip_notes) = 12
    /\ trip_notes[1] # CapturedNotes(calls)[1]

-----------------------------------------------------------------------------
(* C15 *)

\* C15: every stored trip note, role label included, is at most 200
\* characters long, whatever the specialist and the response text.
C15_NoteAtMost200 ==
    \A i \in 1..Len(trip_notes) : Len(trip_notes[i]) <= 200

-----------------------------------------------------------------------------
(* C16 *)

Specialists == SpecKeys \ {Coordinator}

\* C16: a completed dispatch answered by the coordinator leaves the trip
\* notes as they were, and every trip note of a session is a specialist's:
\* it starts with a specialist's label and never with the coordinator's.
C16_CoordinatorNeverNoted ==
    /\ [][(CompletesDispatch /\ current_agent_key = Coordinator) =>
            trip_notes' = trip_notes]_vars
    /\ [](\A i \in 1..Len(trip_notes) :
            /\ \E k \in Specialists :
                   StartsWith(trip_notes[i], Title(k) \o <<":", " ">>)
            /\ ~StartsWith(trip_notes[i], Title(Coordinator)))

\* the coordinator completed a dispatch with a response that has text, and
\* no note was stored
C16_Witness ==
    /\ pc = "loop"
    /\ last.outcome = "completed" /\ last.role = Coordinator
    /\ Strip(last.response) # <<>>
    /\ trip_notes = <<>>

-----------------------------------------------------------------------------
(* The methods called directly, outside a session: parse_handoff *)

Roles == {Coordinator, Flight, Hotel, Activity, Transfer, Reference}
UNKNOWN == <<"U","n","k","n","o","w","n">>

\* the letter cases a word is written in
LetterCases == {"lower", "upper", "title"}
InCase(c, word) ==
    CASE c = "lower" -> Lower(word)
      [] c = "upper" -> Upper(word)
      [] c = "title" -> Title(word)

\* whitespace before the line, between prefix and target, after the line
LeadingSpace == {<<>>, <<" ", " ">>, <<"\t">>}
InnerSpace == {<<>>, <<" ">>, <<"\t", " ">>}
TrailingSpace == {<<>>, <<" ", " ">>, <<" ", "\t">>}

\* one marker line per role, case and whitespace
MarkerVariants ==
    {[kind |-> "variant", role |-> r,
      text |-> lead \o InCase(pcase, HANDOFF_PREFIX) \o inner \o InCase(tc, r) \o trail] :
        r \in Roles, pcase \in LetterCases, tc \in LetterCases,
        lead \in LeadingSpace, inner \in InnerSpace, trail \in TrailingSpace}

\* a marker line whose target is wrapped in markdown or punctuation
Decorations ==
    {[before |-> <<"*">>, after |-> <<"*">>],
     [before |-> <<"*","*">>, after |-> <<"*","*">>],
     [before |-> <<"_">>, after |-> <<"_">>],
     [before |-> <<>>, after |-> <<".">>]}
DecoratedMarkers ==
    {[kind |-> "decorated", role |-> r,
      text |-> lead \o HANDOFF_PREFIX \o d.before \o Title(r) \o d.after] :
        r \in Roles, d \in Decorations, lead \in {<<>>, <<" ", " ">>}}

\* the role a claim of "earliest known target wins" expects of two targets
EarliestKnown(a, b) ==
    IF Lower(a) \in Roles THEN Lower(a)
    ELSE IF Lower(b) \in Roles THEN Lower(b) ELSE None

\* responses with two marker lines, with or without a text line before them
TwoMarkers ==
    {[kind |-> "multi", role |-> EarliestKnown(a, b),
      text |-> intro \o HANDOFF_PREFIX \o a \o <<NL>> \o HANDOFF_PREFIX \o b] :
        a \in {Title(r) : r \in Roles} \cup {UNKNOWN},
        b \in {Title(r) : r \in Roles} \cup {UNKNOWN},
        intro \in {<<>>, <<"o","k",NL>>}}

\* responses without a marker line
Unmarked ==
    {[kind |-> "plain", role |-> None, text |-> t] :
        t \in {<<>>, <<"o","k">>, <<"8","2","0"," ","U","S","D",NL>>}}

\* a marker line on which other characters come before the prefix: a
\* markdown bullet, bold markers round the whole marker, prose
PrefixedMarkers ==
    {[kind |-> "prefixed", role |-> r,
      text |-> p.before \o HANDOFF_PREFIX \o Title(r) \o p.after] :
        r \in Roles,
        p \in {[before |-> <<"-", " ">>, after |-> <<>>],
               [before |-> <<"*", "*">>, after |-> <<"*", "*">>],
               [before |-> <<"N","e","x","t",":"," ">>, after |-> <<>>]}}

ParseInputs ==
    MarkerVariants \cup DecoratedMarkers \cup TwoMarkers \cup Unmarked
    \cup PrefixedMarkers

\* one call of parse_handoff (one call per behaviour: the method reads and
\* writes no field)
ParseCall(a) ==
    /\ pc = "parse"
    /\ result = NoResult
    /\ result' = [op |-> "parse", arg |-> a, value |-> parse_handoff(a.text),
                  before |-> <<>>]
    /\ UNCHANGED <<pc, variant, api_key, calls, registry, session, locals, output,
                   exit_cause, n_inputs, n_dispatches, last>>

ParseNext == \E a \in ParseInputs : ParseCall(a)

\* parse_handoff is implemented in the coach class only
ParseInit == DirectInit("parse", {NoLabels}) /\ variant = "coach"

ParseSpec == ParseInit /\ [][ParseNext]_vars

-----------------------------------------------------------------------------
(* C17 *)

\* C17: for each of the six roles, a marker line resolves to that role
\* whatever the letter case of the prefix and of the target and whatever
\* whitespace is before the line, between prefix and target, or after the line.
C17_CaseAndSpaceInsensitive ==
    (result.op = "parse" /\ result.arg.kind = "variant") =>
        result.value = result.arg.role

\* "  handoff: \tHOTEL \t" was parsed
C17_Witness ==
    /\ result.op = "parse"
    /\ result.arg.kind = "variant"
    /\ result.arg.text = <<" "," ">> \o Lower(HANDOFF_PREFIX) \o <<"\t"," ">>
                             \o Upper(Hotel) \o <<" ","\t">>
    /\ result.value = Hotel

-----------------------------------------------------------------------------
(* C18 *)

\* C18: a marker line whose target is wrapped in markdown or punctuation
\* ("*Flight*", "**Flight**", "_Flight_", "Flight.") resolves to the role.
C18_DecorationStripped ==
    (result.op = "parse" /\ result.arg.kind = "decorated") =>
        result.value = result.arg.role

-----------------------------------------------------------------------------
(* C19 *)

\* the lines of a response that are marker lines to parse_handoff, stripped
MarkerLines(text) ==
    SelectSeq([i \in 1..Len(SplitLines(text)) |-> Strip(SplitLines(text)[i])],
              LAMBDA line : StartsWith(Upper(line), HANDOFF_PREFIX))
\* the response has marker lines and each names an unknown role
OnlyUnknownMarkers(text) ==
    /\ MarkerLines(text) # <<>>
    /\ \A i \in 1..Len(MarkerLines(text)) :
           Lower(Strip(AfterFirstColon(MarkerLines(text)[i]))) \notin Roles

\* C19: a response whose marker lines all name unknown roles resolves to
\* none, and the loop ends its dispatch as it ends the dispatch of a response
\* with no marker line: the active role stays and nothing is queued.
C19_UnknownRoleLikeNoMarker ==
    /\ [][(CompletesDispatch /\ OnlyUnknownMarkers(response_text)) =>
            /\ last'.target = None
            /\ current_agent_key' = current_agent_key
            /\ pending_auto_agent' = None
            /\ pending_auto_prompt' = None]_vars
    /\ [][(CompletesDispatch /\ MarkerLines(response_text) = <<>>) =>
            /\ last'.target = None
            /\ current_agent_key' = current_agent_key
            /\ pending_auto_agent' = None
            /\ pending_auto_prompt' = None]_vars

\* the flight agent answered with a marker for an unknown role
C19_Witness ==
    /\ pc = "loop"
    /\ last.outcome = "completed" /\ last.role = Flight
    /\ OnlyUnknownMarkers(last.response)
    /\ current_agent_key = Flight
    /\ pending_auto_agent = None

-----------------------------------------------------------------------------
(* C20 *)

\* C20: of several marker lines, the earliest whose target is a known role
\* decides: an earlier marker line naming an unknown role is passed over, and
\* marker lines after the deciding one are ignored.
C20_EarliestKnownMarkerWins ==
    (result.op = "parse" /\ result.arg.kind = "multi") =>
        result.value = result.arg.role

-----------------------------------------------------------------------------
(* The methods called directly, outside a session: build_agent_prompt *)

\* the character ` (a string of the module cannot hold it)
BACKTICK == "backtick"

CONVERSATION_SO_FAR ==
    << "C","o","n","v","e","r","s","a","t","i","o","n"," ","s","o"," ","f",
       "a","r",":",NL >>
RESPOND_INSTRUCTION ==
    << "R","e","s","p","o","n","d"," ","t","o"," ","t","h","e"," ","l","a",
       "t","e","s","t"," ","u","s","e","r"," ","r","e","q","u","e","s","t",
       " ","w","h","i","l","e"," ","s","t","a","y","i","n","g"," ","c","o",
       "n","s","i","s","t","e","n","t"," ","w","i","t","h"," ","t","h","e",
       " ","c","o","n","v","e","r","s","a","t","i","o","n","."," ","I","f",
       " ","y","o","u"," ","a","r","e"," ","h","a","n","d","i","n","g"," ",
       "c","o","n","t","r","o","l"," ","t","o"," ","a","n","o","t","h","e",
       "r"," ","a","g","e","n","t",","," ","o","u","t","p","u","t"," ","a",
       " ","l","i","n","e"," ","t","h","a","t"," ","s","t","a","r","t","s",
       " ","w","i","t","h"," ",BACKTICK,"H","A","N","D","O","F","F",":",
       BACKTICK," ","b","e","f","o","r","e"," ","y","o","u","r"," ","f","i",
       "n","a","l"," ","m","e","s","s","a","g","e","." >>
LATEST_USER_MESSAGE ==
    << "L","a","t","e","s","t"," ","u","s","e","r"," ","m","e","s","s","a",
       "g","e",":",NL >>

\* needle in haystack
Contains(haystack, needle) ==
    \E i \in 1..(Len(haystack) - Len(needle) + 1) :
        SubSeq(haystack, i, i + Len(needle) - 1) = needle

\* build_agent_prompt: the parts joined by blank lines; agent_key is not read
build_agent_prompt(conv, agent_key, input) ==
    LET context == render_context(conv, 6)
    IN  Join(<<NL, NL>>,
             (IF context # <<>> THEN << CONVERSATION_SO_FAR \o context >> ELSE <<>>)
                 \o << RESPOND_INSTRUCTION, LATEST_USER_MESSAGE \o input >>)

\* at most this many turns are recorded before the prompt is built
MaxPromptTurns == 7

\* the latest inputs a prompt is built for: a typed message, a carried-over
\* response, the continuation instruction, a text with a line break
PromptInputs ==
    { <<"f","l","y">>,
      RESPONSE_PRICES_BACK,
      CONTINUE_PROMPT,
      <<" ","a",NL,"b"," ">> }

\* record_turn before the prompt is built
PromptRecordTurn(i) ==
    /\ pc = "prompt"
    /\ result = NoResult
    /\ Len(calls) < MaxPromptTurns
    /\ i \in NextArgs(TurnArgs, calls)
    /\ conversation' =
           record_turn(conversation, TurnArgs[i].speaker,
                       IF TurnArgs[i].speaker = USER THEN "user" ELSE "assistant",
                       TurnArgs[i].content)
    /\ calls' = Append(calls, [arg |-> i, speaker |-> TurnArgs[i].speaker,
                               content |-> TurnArgs[i].content])
    /\ UNCHANGED <<pc, variant, api_key, result, registry, current_agent_key,
                   pending_auto_agent, pending_auto_prompt, last_user_message,
                   trip_notes, locals, output, exit_cause, n_inputs, n_dispatches,
                   last>>

\* one call of build_agent_prompt (one call per behaviour)
BuildPromptCall(agent_key, input) ==
    /\ pc = "prompt"
    /\ result = NoResult
    /\ result' = [op |-> "prompt", arg |-> [agent_key |-> agent_key, input |-> input],
                  value |-> build_agent_prompt(conversation, agent_key, input),
                  before |-> conversation]
    /\ UNCHANGED <<pc, variant, api_key, calls, registry, session, locals, output,
                   exit_cause, n_inputs, n_dispatches, last>>

PromptNext ==
    \/ \E i \in 1..Len(TurnArgs) : PromptRecordTurn(i)
    \/ \E k \in Roles, input \in PromptInputs : BuildPromptCall(k, input)

\* build_agent_prompt is implemented in the coach class only
PromptInit == DirectInit("prompt", {NoLabels}) /\ variant = "coach"

PromptSpec == PromptInit /\ [][PromptNext]_vars

-----------------------------------------------------------------------------
(* C21 *)

\* the marker that hands back to the coordinator, as a reminder names it
HANDOFF_COORDINATOR == HANDOFF_PREFIX \o Title(Coordinator)

\* C21: the prompt built for a role from a transcript and an input contains
\* the input verbatim, and for every role other than the coordinator it also
\* contains the reminder to emit the marker that hands back to the
\* coordinator (which names that marker, HANDOFF:Coordinator).
C21_PromptHasInputAndReminder ==
    result.op = "prompt" =>
        /\ Contains(result.value, result.arg.input)
        /\ result.arg.agent_key # Coordinator =>
               Contains(Upper(result.value), Upper(HANDOFF_COORDINATOR))

-----------------------------------------------------------------------------
(* C22 *)

\* the step in which input() returned a line (and did not raise)
ReadsLine == pc = "input" /\ n_inputs' = n_inputs + 1 /\ output' # Msg("error")
\* the line read is empty, or the summary or the policy command
ReadsQuietLine ==
    ReadsLine /\ (user_input' = <<>> \/ Lower(user_input') \in {SUMMARY, POLICY})

\* C22: an empty line, the summary command and the policy command leave the
\* active role, the pending handoff, the transcript, the trip notes and the
\* last user message as they were, dispatch nothing, and the loop goes back
\* to await input; summary with no trip note prints the no-notes message.
C22_QuietCommandsKeepSession ==
    /\ [][ReadsQuietLine =>
            /\ current_agent_key' = current_agent_key
            /\ pending_auto_agent' = pending_auto_agent
            /\ pending_auto_prompt' = pending_auto_prompt
            /\ conversation' = conversation
            /\ trip_notes' = trip_notes
            /\ last_user_message' = last_user_message
            /\ n_dispatches' = n_dispatches
            /\ pc' = "loop" /\ ~HasPending']_vars
    /\ [][(ReadsLine /\ Lower(user_input') = SUMMARY /\ trip_notes = <<>>) =>
            output' = Msg("no_summary")]_vars
    /\ [][(pc = "loop" /\ output \in {Msg("no_summary"), Msg("summary"),
                                       Msg("add_details")}) =>
            pc' = "input" /\ n_dispatches' = n_dispatches]_vars

\* summary was typed after a conversation that left no trip note
C22_Witness ==
    /\ pc = "loop"
    /\ Lower(user_input) = SUMMARY
    /\ output = Msg("no_summary")
    /\ conversation # <<>> /\ last_user_message # <<>>

-----------------------------------------------------------------------------
(* C23 *)

\* C23: a line that is, stripped and in lower case, exit, quit, summary or
\* policy is never recorded as a turn nor dispatched; every other non-empty
\* line is recorded as exactly one User turn and sent to the active role.
C23_CommandsNeverDispatched ==
    /\ [][(ReadsLine /\ Lower(user_input') \in {EXIT, QUIT, SUMMARY, POLICY}) =>
            /\ conversation' = conversation
            /\ last_user_message' = last_user_message
            /\ n_dispatches' = n_dispatches
            /\ pc' # "stream"]_vars
    /\ [][(ReadsLine /\ user_input' # <<>>
             /\ Lower(user_input') \notin {EXIT, QUIT, SUMMARY, POLICY}) =>
            /\ Len(conversation') = Len(conversation) + 1
            /\ conversation'[Len(conversation')].speaker = USER
            /\ conversation'[Len(conversation')].content = user_input'
            /\ SubSeq(conversation', 1, Len(conversation)) = conversation
            /\ n_dispatches' = n_dispatches + 1
            /\ pc' = "stream"
            /\ last'.role = current_agent_key
            /\ current_agent_key' = current_agent_key]_vars

\* POLICY in capitals was handled as the command after a message was sent
C23_Witness ==
    /\ pc = "loop"
    /\ user_input = Upper(POLICY)
    /\ n_dispatches = 1
    /\ Len(conversation) = 2
    /\ conversation[1].speaker = USER

-----------------------------------------------------------------------------
(* The methods called directly, outside a session: the policy check *)

\* in the student module get_agent may raise too
Student_PolicyOutcomes ==
    PolicyOutcomes \cup {PolicyOutcome("get_agent", 0, "completed", "text")}

\* one call of check_travel_policy / run_policy_check (one call per behaviour)
PolicyCheckCall(configured, outcome) ==
    /\ pc = "policy"
    /\ result = NoResult
    /\ variant = "coach" => outcome \in PolicyOutcomes
    /\ result' = [op |-> "policy",
                  arg |-> [configured |-> configured, outcome |-> outcome],
                  value |-> IF variant = "coach"
                            THEN check_travel_policy(configured, outcome)
                            ELSE Student_run_policy_check(configured, outcome),
                  before |-> <<>>]
    /\ calls' = IF variant = "coach" THEN PolicyCalls(configured, outcome)
                ELSE Student_PolicyCalls(configured, outcome)
    /\ UNCHANGED <<pc, variant, api_key, registry, session, locals, output, exit_cause,
                   n_inputs, n_dispatches, last>>

PolicyNext ==
    \E configured \in BOOLEAN, o \in Student_PolicyOutcomes :
        PolicyCheckCall(configured, o)

PolicyInit == DirectInit("policy", {NoLabels})

PolicySpec == PolicyInit /\ [][PolicyNext]_vars

-----------------------------------------------------------------------------
(* C24 *)

\* what counts as a 'not configured' message: the student's text, and the
\* coach loop's text for a check that returned None
NOT_CONFIGURED_MESSAGES ==
    {Msg("Travel policy agent not configured."), Msg("Policy check unavailable.")}

\* C24: when the policy service is not configured, the policy command prints
\* a 'not configured' message and makes no call to the policy service,
\* whatever the trip notes and the transcript hold.
C24_UnconfiguredPolicySaysSo ==
    [][(ReadsLine /\ Lower(user_input') = POLICY /\ ~policy_configured) =>
          /\ output' \in NOT_CONFIGURED_MESSAGES
          /\ calls' = calls]_vars

-----------------------------------------------------------------------------
(* C25 *)

\* the last service call made so far raised
PolicyCallRaised == calls # <<>> /\ calls[Len(calls)].raised

\* C25: a policy check on a configured service makes its calls and always
\* ends with a string printed and the loop going on: when a service call
\* raises (whichever of the five), the text is the one that describes the
\* error, and the error reaches neither the loop's handler nor the end of the
\* session.
C25_PolicyErrorsBecomeText ==
    /\ [][(ReadsLine /\ Lower(user_input') = POLICY /\ policy_configured
             /\ trip_notes # <<>>) =>
            Len(calls') > Len(calls)]_vars
    /\ [][Len(calls') > Len(calls) =>
            /\ output' \notin {Msg("error"), Msg("Policy check unavailable.")}
            /\ PolicyCallRaised' => output' = Msg("Policy check unavailable: exc")
            /\ pc' = "loop"
            /\ exit_cause' = exit_cause]_vars

\* polling the run raised, the text was printed and the loop goes on
C25_Witness ==
    /\ pc = "loop"
    /\ PolicyCallRaised
    /\ calls[Len(calls)].call = "runs.get"
    /\ output = Msg("Policy check unavailable: exc")
    /\ exit_cause = "none"

-----------------------------------------------------------------------------
(* C26 *)

\* C26: when the run ends in a status other than completed (failed,
\* cancelled, expired), the check returns a failure text that contains that
\* status.
C26_FailureTextHasStatus ==
    (/\ result.op = "policy"
     /\ result.arg.configured
     /\ result.arg.outcome.raises = "none"
     /\ result.arg.outcome.status # "completed") =>
        \E i \in 1..Len(result.value) : result.value[i] = result.arg.outcome.status

-----------------------------------------------------------------------------
(* C27 *)

\* C27: when the configuration is incomplete or the server script cannot be
\* located, initialization fails, the loop never starts (no input is read,
\* no agent is dispatched), and teardown still runs.
C27_InitFailureStillTearsDown ==
    [][(pc = "init" /\ pc' # "loop") =>
          /\ n_inputs' = 0 /\ n_dispatches' = 0
          /\ pc' = "finally"]_vars

\* C27 as amended: a failure of initialize_agents (settings missing, script
\* missing, an agent not created) is reported, the loop never starts and
\* teardown runs; when main()'s own check finds the script missing the
\* process ends before the orchestrator exists: the loop never starts, no
\* teardown runs and there is nothing to tear down.
C27_InitFailureNeverStartsLoop ==
    /\ [][(pc = "init" /\ pc' # "loop") =>
            /\ n_inputs' = 0 /\ n_dispatches' = 0
            /\ \/ pc' = "finally" /\ exit_cause' = "fatal"
               \/ /\ pc' = "aborted" /\ exit_cause' = "missing_server"
                  /\ agents' = {} /\ exit_stack' = <<>>]_vars
    /\ [](exit_cause \in {"fatal", "missing_server"} =>
            /\ ~InLoop
            /\ n_inputs = 0 /\ n_dispatches = 0 /\ conversation = <<>>)
    /\ [][pc = "aborted" => pc' = "aborted"]_vars
    /\ (exit_cause = "fatal" ~>
            (pc = "closed" /\ exit_stack = <<>>
                /\ \A k \in SpecKeys : released[k] = (IF k \in agents THEN 1 ELSE 0)))

\* initialization failed after two agents were created, and both were released
C27_Witness ==
    /\ pc = "closed"
    /\ exit_cause = "fatal"
    /\ Cardinality(agents) = 2
    /\ n_inputs = 0 /\ n_dispatches = 0

-----------------------------------------------------------------------------
(* secure_weather_server.py: ApiKeyAuthMiddleware *)

\* Header values are bytes: an ASCII byte is written as its character, any
\* other byte as a token naming it.
HighBytes == {"0xC3", "0xA9", "0xFF"}

E_ACUTE == "e-acute"

\* bytes.decode(): UTF-8 decoding; [ok |-> FALSE] stands for UnicodeDecodeError
RECURSIVE decode(_)
decode(bytes) ==
    IF bytes = <<>> THEN [ok |-> TRUE, text |-> <<>>]
    ELSE IF Head(bytes) \notin HighBytes
    THEN LET rest == decode(Tail(bytes))
         IN [ok |-> rest.ok, text |-> <<Head(bytes)>> \o rest.text]
    ELSE IF Len(bytes) >= 2 /\ bytes[1] = "0xC3" /\ bytes[2] = "0xA9"
    THEN LET rest == decode(SubSeq(bytes, 3, Len(bytes)))
         IN [ok |-> rest.ok, text |-> <<E_ACUTE>> \o rest.text]
    ELSE [ok |-> FALSE, text |-> <<>>]

\* str.encode(): the UTF-8 bytes of a text
RECURSIVE encode(_)
encode(text) ==
    IF text = <<>> THEN <<>>
    ELSE (IF Head(text) = E_ACUTE THEN <<"0xC3", "0xA9">> ELSE <<Head(text)>>)
         \o encode(Tail(text))

X_API_KEY == "x-api-key"

\* dict(scope["headers"]).get(name): the value of the last pair with that
\* name; found is FALSE where get returns None
HeadersGet(headers, name) ==
    LET at == {i \in 1..Len(headers) : headers[i].name = name}
    IN IF at = {} THEN [found |-> FALSE, value |-> <<>>]
       ELSE [found |-> TRUE,
             value |-> headers[CHOOSE i \in at : \A j \in at : j <= i].value]

APP == Msg("self.app")
UNAUTHORIZED == Msg("401")
UNICODE_DECODE_ERROR == Msg("UnicodeDecodeError")

\* what __call__ ends in: the wrapped app awaited, the 401 response sent, or
\* the exception key_header.decode() raises
ApiKeyAuthMiddleware(key, protected_paths, scope) ==
    IF scope.type # "http" THEN APP
    ELSE IF ~(\E p \in protected_paths : StartsWith(scope.path, p)) THEN APP
    ELSE LET key_header == HeadersGet(scope.headers, X_API_KEY)
         IN IF ~key_header.found \/ key_header.value = <<>> THEN UNAUTHORIZED
            ELSE IF ~decode(key_header.value).ok THEN UNICODE_DECODE_ERROR
            ELSE IF decode(key_header.value).text # key THEN UNAUTHORIZED
            ELSE APP

MCP_PATH == <<"/","m","c","p">>

\* app = ApiKeyAuthMiddleware(mcp_app, api_key=API_KEY, protected_paths=["/mcp"])
protected_paths == {MCP_PATH}

ApiKeys == {DEFAULT_API_KEY, <<"k", E_ACUTE>>, <<>>}

RequestPaths ==
    { <<"/">>, <<"/","h","e","a","l","t","h">>, MCP_PATH,
      MCP_PATH \o <<"/","t","o","o","l","s">>, <<"/","a","p","i">> \o MCP_PATH }

Header(name, value) == [name |-> name, value |-> value]

HeaderValues ==
    { DEFAULT_API_KEY, <<"k", "0xC3", "0xA9">>, <<"n","o","p","e">>, <<>>,
      SubSeq(DEFAULT_API_KEY, 1, Len(DEFAULT_API_KEY) - 1),
      <<"k", "0xFF">>, <<"0xC3">> }

RequestHeaders ==
    { <<>>, <<Header("accept", <<"*","/","*">>)>> }
    \cup { <<Header(X_API_KEY, v)>> : v \in HeaderValues }
    \cup { <<Header(X_API_KEY, <<"n","o","p","e">>), Header(X_API_KEY, v)>> :
              v \in {DEFAULT_API_KEY, <<"k", "0xC3", "0xA9">>} }

Scopes ==
    [type : {"http", "websocket"}, path : RequestPaths, headers : RequestHeaders]

Request(scope) ==
    /\ pc = "http"
    /\ result.op = "none"
    /\ result' = [op |-> "request", arg |-> scope,
                  value |-> ApiKeyAuthMiddleware(api_key, protected_paths, scope),
                  before |-> <<>>]
    /\ UNCHANGED <<pc, variant, api_key, calls, registry, session, locals, output,
                   exit_cause, n_inputs, n_dispatches, last>>

AuthNext == \E scope \in Scopes : Request(scope)

AuthInit ==
    /\ ObjectInit("http", {NoLabels})
    /\ variant = "coach"
    /\ api_key \in ApiKeys

AuthSpec == AuthInit /\ [][AuthNext]_vars

UnderProtectedPrefix(path) == \E p \in protected_paths : StartsWith(path, p)

PresentsKey(scope, key) ==
    LET key_header == HeadersGet(scope.headers, X_API_KEY)
    IN key_header.found /\ key_header.value = encode(key)

\* C28: for every HTTP request the wrapped app is invoked iff the path is not
\* under the protected prefix /mcp or the X-API-Key header equals the
\* configured key; a protected path with a missing or wrong key gets the 401
\* response and does not reach the app; / and /health are served without a key
C28_AppIffUnprotectedOrKey ==
    (result.op = "request" /\ result.arg.type = "http") =>
        LET scope == result.arg
            open == ~UnderProtectedPrefix(scope.path) \/ PresentsKey(scope, api_key)
        IN /\ (result.value = APP) <=> open
           /\ ~open => result.value = UNAUTHORIZED
           /\ scope.path \in {<<"/">>, <<"/","h","e","a","l","t","h">>}
                 => result.value = APP

-----------------------------------------------------------------------------
(* Streaming and auto-dispatch *)

\* a step that consumes the stream of a response and leaves it unfinished
ConsumesFragment == pc = "stream" /\ pc' = "stream"

\* C29: while the fragments of one streamed response are consumed no session
\* state changes (active role, pending handoff, transcript, trip notes), no
\* fragment is lost, and the handoff is resolved only when the stream has
\* ended, from the complete concatenated text: a marker split across
\* fragments is recognised, a marker in an early fragment changes nothing
\* before the end
C29_StreamIsAtomic ==
    /\ [][ConsumesFragment =>
             /\ UNCHANGED session
             /\ response_text' \o stream_rest' = response_text \o stream_rest]_vars
    /\ [](pc = "stream" => response_text \o stream_rest \in AgentResponses)
    /\ [][CompletesDispatch =>
             /\ stream_rest = <<>>
             /\ last'.response = response_text
             /\ last'.target = parse_handoff(response_text)
             /\ current_agent_key' =
                    (IF last'.target \in agents THEN last'.target
                     ELSE current_agent_key)]_vars

\* the text streamed so far already holds a complete marker for another
\* registered role, more text is to come, and the active role is still the
\* one dispatched
C29_Witness ==
    /\ pc = "stream"
    /\ stream_rest # <<>>
    /\ response_text # <<>>
    /\ parse_handoff(response_text) \in agents \ {current_agent_key}
    /\ current_agent_key = last.role

\* the step that starts an auto-dispatch
StartsAutoDispatch == pc = "loop" /\ pc' = "stream"

\* C30: an auto-dispatch uses the queued role and the queued prompt (else the
\* last user message, else the generic continuation instruction) and clears
\* the pending handoff before the agent is called; an auto-dispatched call
\* that fails is not retried: the loop next awaits user input
C30_AutoDispatchClearsPending ==
    /\ [][StartsAutoDispatch =>
             /\ pending_auto_agent \in agents
             /\ current_agent_key' = pending_auto_agent
             /\ last'.role = pending_auto_agent
             /\ last'.auto
             /\ last'.prompt =
                    (IF pending_auto_prompt \notin {None, <<>>}
                     THEN pending_auto_prompt
                     ELSE IF last_user_message # <<>> THEN last_user_message
                     ELSE CONTINUE_PROMPT)
             /\ user_input' = last'.prompt
             /\ pending_auto_agent' = None
             /\ pending_auto_prompt' = None]_vars
    /\ [][(FailsDispatch /\ last.auto) =>
             /\ pc' = "loop"
             /\ pending_auto_agent' = None
             /\ pending_auto_prompt' = None]_vars
    /\ [][(pc = "loop" /\ last.outcome = "failed" /\ last.auto /\ pc' # "loop") =>
             /\ pc' = "input"
             /\ n_dispatches' = n_dispatches]_vars

\* an auto-dispatched call has failed and the loop is waiting in input()
C30_Witness ==
    /\ pc = "input"
    /\ last.outcome = "failed"
    /\ last.auto
    /\ last.role \in Specialists
    /\ pending_auto_agent = None
    /\ n_dispatches = 2

-----------------------------------------------------------------------------
(* The turns of the transcript *)

\* the step in which a line typed by the user is recorded and dispatched
ReadsMessage == pc = "input" /\ pc' = "stream"

TypedMessages == {Strip(raw) : raw \in UserInputs}

\* C31: every completed dispatch with a non-blank response appends exactly
\* one turn for it, under the display label of the role that was active when
\* the dispatch began (not the handoff target); a User turn is appended only
\* for a line typed by the user, before the prompt is built, never for the
\* carried-over prompt of an auto-dispatch, which leaves the last user
\* message unchanged too
C31_OneTurnPerDispatch ==
    /\ [][(CompletesDispatch /\ Strip(response_text) # <<>>) =>
            LET turn == ConversationTurn(LabelOf(agent_labels, last.role),
                                         "assistant", Strip(response_text))
            IN  /\ conversation'[Len(conversation')] = turn
                /\ Len(conversation) < TRANSCRIPT_MAX =>
                       conversation' = Append(conversation, turn)]_vars
    /\ [][ReadsMessage =>
            /\ ~last'.auto
            /\ user_input' \in TypedMessages
            /\ last_user_message' = user_input'
            /\ Len(conversation) < TRANSCRIPT_MAX =>
                   conversation' =
                       Append(conversation, ConversationTurn(USER, "user", user_input'))
            /\ last'.conv_before = conversation']_vars
    /\ [][StartsAutoDispatch =>
            /\ conversation' = conversation
            /\ last_user_message' = last_user_message
            /\ last'.conv_before = conversation]_vars
    /\ [][conversation' # conversation => (CompletesDispatch \/ ReadsMessage)]_vars
    /\ [](\A i \in 1..Len(conversation) :
            conversation[i].role = "user" =>
                /\ conversation[i].speaker = USER
                /\ conversation[i].content \in TypedMessages)

\* an auto-dispatched specialist has answered and handed back: its turn is
\* under its own label, and the only User turn is the line that was typed
C31_Witness ==
    /\ pc = "loop"
    /\ last.auto
    /\ last.outcome = "completed"
    /\ last.role = Flight
    /\ last.target = Coordinator
    /\ Len(conversation) = 3
    /\ conversation[1].role = "user"
    /\ conversation[2].speaker = LabelOf(agent_labels, Coordinator)
    /\ conversation[3].speaker = LabelOf(agent_labels, Flight)
    /\ last_user_message = conversation[1].content

-----------------------------------------------------------------------------
(* The agents' threads *)

\* the step that calls an agent
CallsAgent == pc # "stream" /\ pc' = "stream"

\* C32: each role gets exactly one conversation context, created when its
\* handle is created; every dispatch to a role passes that role's own context
\* and never another role's; the loop never changes the role-to-handle and
\* role-to-context mappings after initialization
C32_OwnThreadPerRole ==
    /\ [](/\ DOMAIN agent_threads = agents
          /\ \A j, k \in agents : agent_threads[j] = agent_threads[k] => j = k)
    /\ [][CallsAgent =>
            /\ last'.role = current_agent_key'
            /\ last'.role \in agents
            /\ last'.thread = agent_threads[last'.role]
            /\ \A k \in agents \ {last'.role} : agent_threads[k] # last'.thread]_vars
    /\ [][pc # "init" => UNCHANGED <<agents, agent_threads>>]_vars

\* a specialist is answering an auto-dispatch on its own thread, after the
\* coordinator was called on another one
C32_Witness ==
    /\ pc = "stream"
    /\ last.auto
    /\ last.role = Flight
    /\ last.role_before = Flight
    /\ last.thread = agent_threads[Flight]
    /\ last.thread # agent_threads[Coordinator]
    /\ Cardinality(agents) = Len(build_agent_specs)

-----------------------------------------------------------------------------
(* Teardown after a partial initialization *)

\* C33: if creating the handle of the k-th role fails during initialization,
\* every handle created for the earlier roles is released exactly once by
\* teardown, and no handle is released that was never acquired
C33_PartialInitReleased ==
    /\ [](exit_cause = "fatal" =>
            /\ \E k \in 1..Len(build_agent_specs) :
                   agents = {build_agent_specs[i] : i \in 1..(k - 1)}
            /\ \A r \in SpecKeys \ agents : released[r] = 0
            /\ \A r \in agents : released[r] = (IF pc = "closed" THEN 1 ELSE 0))
    /\ [][released' # released => (pc = "finally" /\ pc' = "closed")]_vars
    /\ (exit_cause = "fatal") ~> (pc = "closed")

\* creating the fourth handle failed: the three handles created before it
\* were released, the other three roles never had one
C33_Witness ==
    /\ pc = "closed"
    /\ exit_cause = "fatal"
    /\ agents = {Coordinator, Reference, Flight}
    /\ \A r \in agents : released[r] = 1
    /\ \A r \in SpecKeys \ agents : released[r] = 0
    /\ exit_stack = <<>>

-----------------------------------------------------------------------------
(* The service calls of a policy check *)

\* the place of a service call in the order of a check
CallRank(name) ==
    CASE name = "threads.create" -> 1
      [] name = "messages.create" -> 2
      [] name = "runs.create" -> 3
      [] name = "runs.get" -> 4
      [] name = "messages.list" -> 5
      [] OTHER -> 0

CallsNamed(name) == {i \in 1..Len(calls) : calls[i].call = name}

\* C34: a policy check calls the service in the order create conversation,
\* post message, create run, then polls the run for as long as it is queued or
\* in progress, and lists the messages only after it saw the status
\* completed; when the run reaches a terminal status the check returns
C34_PolicyCallOrder ==
    (result.op = "policy" /\ result.arg.configured) =>
        LET outcome == result.arg.outcome
        IN  /\ \A i, j \in 1..Len(calls) :
                   i < j => /\ CallRank(calls[i].call) <= CallRank(calls[j].call)
                            /\ ~calls[i].raised
            /\ \A name \in {"threads.create", "messages.create", "runs.create",
                            "messages.list"} : Cardinality(CallsNamed(name)) <= 1
            /\ outcome.raises \in {"none", "messages.list"} =>
                   /\ \A name \in {"threads.create", "messages.create",
                                   "runs.create"} : CallsNamed(name) # {}
                   /\ Cardinality(CallsNamed("runs.get")) = outcome.polls
            /\ CallsNamed("messages.list") # {} =>
                   /\ outcome.status = "completed"
                   /\ Cardinality(CallsNamed("runs.get")) = outcome.polls
            /\ result.value \notin {None, PROPAGATES}
            /\ Len(result.value) >= 1

\* the run was polled once, ended as failed, and the check returned without
\* listing the messages
C34_Witness ==
    /\ result.op = "policy"
    /\ result.arg.configured
    /\ result.arg.outcome.raises = "none"
    /\ result.arg.outcome.polls = 1
    /\ result.arg.outcome.status = "failed"
    /\ Cardinality(CallsNamed("runs.get")) = 1
    /\ CallsNamed("messages.list") = {}
    /\ calls[Len(calls)].call = "runs.get"

-----------------------------------------------------------------------------
(* The text a policy check is given *)

\* C35: the text submitted to the policy check is the retained trip notes
\* joined with ' | '; when no trip note exists yet, the policy command falls
\* back to recent transcript text and still runs the check
C35_PolicySummaryFallsBack ==
    [][(ReadsLine /\ Lower(user_input') = POLICY) =>
          /\ result'.op = "check_travel_policy"
          /\ result'.arg = Student_build_policy_summary(trip_notes, conversation)]_vars

-----------------------------------------------------------------------------
(* Marker lines with text before the prefix *)

\* C36: a line on which the control prefix HANDOFF: is preceded by other
\* characters (a markdown bullet, bold markers, prose: '**HANDOFF:Flight**',
\* '- HANDOFF:Flight') is still a handoff marker and resolves to the role
C36_PrefixFoundInsideLine ==
    (result.op = "parse" /\ result.arg.kind = "prefixed") =>
        result.value = result.arg.role

-----------------------------------------------------------------------------
(* The active role and the pending role *)

\* C37: in every reachable state of the loop the active role is a registered
\* role; whenever an auto-handoff is pending its role is a registered
\* non-coordinator role, equals the active role and differs from the role
\* whose response queued it: a marker naming the speaking role itself queues
\* nothing and leaves the active role unchanged
C37_ActiveAndPendingRegistered ==
    /\ [](InLoop => current_agent_key \in agents)
    /\ [](pending_auto_agent # None =>
            /\ pending_auto_agent \in agents \ {Coordinator}
            /\ pending_auto_agent = current_agent_key
            /\ last.outcome = "completed"
            /\ last.target = pending_auto_agent
            /\ last.role # pending_auto_agent)
    /\ [][(CompletesDispatch /\ parse_handoff(response_text) = current_agent_key) =>
            /\ current_agent_key' = current_agent_key
            /\ pending_auto_agent' = None
            /\ pending_auto_prompt' = None]_vars

\* the flight agent, dispatched automatically, named itself in its marker:
\* it stays active and nothing is queued
C37_Witness ==
    /\ pc = "loop"
    /\ last.outcome = "completed"
    /\ last.auto
    /\ last.role = Flight
    /\ last.target = Flight
    /\ current_agent_key = Flight
    /\ pending_auto_agent = None

-----------------------------------------------------------------------------
(* Specialists that hand back to the coordinator *)

\* the target a marker line names: the text after its colon, trimmed and
\* case-folded
NamedBy(line) == Lower(Strip(AfterFirstColon(line)))

\* some marker line of the response names the coordinator
HasCoordinatorMarker(text) ==
    \E i \in 1..Len(MarkerLines(text)) : NamedBy(MarkerLines(text)[i]) = Coordinator

\* the first marker line of the response names the coordinator
FirstMarkerIsCoordinator(text) ==
    MarkerLines(text) # <<>> /\ NamedBy(MarkerLines(text)[1]) = Coordinator

\* a specialist's dispatch has completed and the loop is about to go on
SpecialistAnswered ==
    pc = "loop" /\ last.outcome = "completed" /\ last.role \in Specialists

\* C38: if every agent call completes and every specialist response contains
\* a marker naming the coordinator, each conversational user input is
\* followed by at most one auto-dispatch, after which the loop awaits user
\* input with the coordinator active and no handoff pending
C38_CoordinatorMarkerEndsChain ==
    /\ []((SpecialistAnswered /\ HasCoordinatorMarker(last.response)) =>
            /\ current_agent_key = Coordinator
            /\ pending_auto_agent = None)
    /\ [][(SpecialistAnswered /\ HasCoordinatorMarker(last.response)
             /\ pc' # pc) =>
            /\ pc' = "input"
            /\ n_dispatches' = n_dispatches]_vars
    /\ [][(StartsAutoDispatch /\ last.auto) =>
            /\ last.outcome = "completed"
            /\ ~HasCoordinatorMarker(last.response)]_vars

\* C38 with the premise that the first marker line of every specialist
\* response names the coordinator
C38_FirstCoordinatorMarkerEndsChain ==
    /\ []((SpecialistAnswered /\ FirstMarkerIsCoordinator(last.response)) =>
            /\ current_agent_key = Coordinator
            /\ pending_auto_agent = None)
    /\ [][(SpecialistAnswered /\ FirstMarkerIsCoordinator(last.response)
             /\ pc' # pc) =>
            /\ pc' = "input"
            /\ n_dispatches' = n_dispatches]_vars
    /\ [][(StartsAutoDispatch /\ last.auto) =>
            /\ last.outcome = "completed"
            /\ ~FirstMarkerIsCoordinator(last.response)]_vars

\* one line was typed, the coordinator handed to the flight agent, the one
\* auto-dispatch ended with the coordinator marker and the loop awaits input
C38_Witness ==
    /\ pc = "input"
    /\ n_inputs = 1
    /\ n_dispatches = 2
    /\ last.auto
    /\ last.outcome = "completed"
    /\ last.role = Flight
    /\ FirstMarkerIsCoordinator(last.response)
    /\ Len(MarkerLines(last.response)) = 1
    /\ current_agent_key = Coordinator
    /\ pending_auto_agent = None

-----------------------------------------------------------------------------
(* Chains of auto-dispatches: a session in which every agent call completes
   and the agents answer by role, the specialists handing off to one another *)

\* what the agent of a role streams whenever it is called
ChainReplies(role) ==
    IF role = Coordinator THEN {<<"o","k">>, RESPONSE_TO_FLIGHT}
    ELSE IF role = Flight
    THEN {<<"h","a","n","d","o","f","f",":"," ","h","o","t","e","l",NL,"H","A","N","D","O","F","F",":","C","o","o","r","d","i","n","a","t","o","r">>}
    ELSE {RESPONSE_TO_FLIGHT}

\* the state initialize_agents leaves when it returns, with the two counters
\* switched off
ChainInit ==
    /\ pc = "loop"
    /\ agents = SpecKeys
    /\ agent_labels = [k \in SpecKeys |-> InitialLabel(k, FALSE)]
    /\ agent_threads =
           [k \in SpecKeys |->
               CHOOSE i \in 1..Len(build_agent_specs) : build_agent_specs[i] = k]
    /\ exit_stack = build_agent_specs
    /\ released = [k \in SpecKeys |-> 0]
    /\ policy_configured = FALSE
    /\ current_agent_key = Coordinator
    /\ pending_auto_agent = None
    /\ pending_auto_prompt = None
    /\ last_user_message = <<>>
    /\ conversation = <<>>
    /\ trip_notes = <<>>
    /\ user_input = <<>>
    /\ agent_label = <<>>
    /\ auto_mode = FALSE
    /\ response_text = <<>>
    /\ stream_rest = <<>>
    /\ output = Msg("initialised")
    /\ exit_cause = "none"
    /\ n_inputs = -1
    /\ n_dispatches = -1
    /\ last = NoDispatch
    /\ variant = "coach"
    /\ calls = <<>>
    /\ result = NoResult
    /\ api_key = DEFAULT_API_KEY

ChainNext ==
    \/ AwaitInput
    \/ \E r \in ChainReplies(current_agent_key) : ReadMessage(<<" ","f","l","y"," ">>, r)
    \/ \E r \in ChainReplies(pending_auto_agent) : AutoDispatch(r)
    \/ \E k \in 1..Len(stream_rest) : StreamFragment(k)
    \/ StreamEnd

ChainSpec == ChainInit /\ [][ChainNext]_vars

\* every agent call completes and the loop keeps running: each step of the
\* loop is taken once it can be. StreamEnd can be taken exactly when the
\* stream is exhausted and always leaves that position, so its weak fairness
\* is the last conjunct
ChainLiveSpec ==
    /\ ChainSpec
    /\ WF_vars(AwaitInput)
    /\ WF_vars(\E r \in ChainReplies(current_agent_key) :
                   ReadMessage(<<" ","f","l","y"," ">>, r))
    /\ WF_vars(\E r \in ChainReplies(pending_auto_agent) : AutoDispatch(r))
    /\ WF_vars(\E k \in 1..Len(stream_rest) : StreamFragment(k))
    /\ []<>~(pc = "stream" /\ stream_rest = <<>>)

\* C39: provided every agent call completes, after every conversational user
\* input the loop eventually awaits user input again: a chain of consecutive
\* auto-dispatches is always finite, whatever markers the agents emit
\* (specialists handing off to one another included)
C39_ChainsAreFinite ==
    (pc = "stream" /\ ~last.auto) ~> (pc = "input")

====
